---- MODULE Spec2Model ----
(***************************************************************************)
(* A model of process_execution/src/remote.rs: the remote execution        *)
(* CommandRunner.  One run() is modelled as a state machine over the       *)
(* future chain of the source; the classifier extract_execute_response,    *)
(* format_error, map_grpc_result and make_execute_request are operators.   *)
(*                                                                         *)
(* Representation conventions                                              *)
(*   - a message (String) is a sequence of strings, one per formatted part *)
(*   - Bytes are sequences of symbols (strings), one symbol per byte       *)
(*   - a Fingerprint is a natural number, its hex text a string            *)
(*   - protobuf optional fields are a has_x flag beside a defaulted x      *)
(*   - time is in milliseconds                                             *)
(***************************************************************************)
EXTENDS Integers, Sequences, FiniteSets, TLC

\* ------------------------------------------------------------------ bounds
\* Execute calls one run may issue (first submission and re-submissions).
MaxExecutes == 3
\* The longest request timeout explored, in backoff increments.
MaxTimeoutSteps == 60
\* Values (environments, channels, clients) one handle may construct.
MaxValuesMade == 8

\* ------------------------------------------------------- program constants
BACKOFF_INCR_WAIT_MILLIS == 500
BACKOFF_MAX_WAIT_MILLIS == 5000
\* grpcio::RpcStatusCode values the classifier matches on.
RpcOk == 0
RpcFailedPrecondition == 9

min(a, b) == IF a <= b THEN a ELSE b

\* Debug text of a string: quoted.
Quoted(text) == "\"" \o text \o "\""

\* A message contains a part.
RECURSIVE Contains(_, _)
Contains(msg, part) ==
  IF msg = <<>> THEN FALSE
  ELSE IF Head(msg) = part THEN TRUE ELSE Contains(Tail(msg), part)

\* ------------------------------------------------------------ hashing
\* Byte strings used as file contents.  UnknownBytes stands for a blob that no
\* store holds.
EmptyBytes == <<>>
FooBytes == <<"f", "o", "o">>
RolandBytes == <<"r", "o", "l", "a", "n", "d">>
SimbaBytes == <<"s", "i", "m", "b", "a">>
UnknownBytes == <<"?">>
Contents == {EmptyBytes, FooBytes, RolandBytes, SimbaBytes}

\* Sha256 of a byte string: an injective stand-in for a collision-free hash
\* (the fingerprint is the tagged byte string).
Sha256(bytes) == <<"#">> \o bytes

\* hashing::Digest: (Fingerprint, size).
Digest(fp, size) == [fp |-> fp, size |-> size]
DigestOf(bytes) == Digest(Sha256(bytes), Len(bytes))
NoDigest == Digest(<<>>, 0)

RECURSIVE Concat(_)
Concat(symbols) ==
  IF symbols = <<>> THEN "" ELSE Head(symbols) \o Concat(Tail(symbols))

\* Fingerprint::to_hex / Display: lower-case hex text.
to_hex(fp) == "hex:" \o Concat(Tail(fp))
\* The same digits written with upper-case letters.
to_hex_upper(fp) == "HEX:" \o Concat(Tail(fp))

\* bazel_protos::remote_execution::Digest: hash text and size_bytes.
ProtoDigest(hash, size_bytes) == [hash |-> hash, size_bytes |-> size_bytes]
DefaultProtoDigest == ProtoDigest("", 0)
\* From<&Digest> for the protobuf digest.
ToProtoDigest(d) == ProtoDigest(to_hex(d.fp), d.size)

\* ---------------------------------------------------- make_execute_request
\* Strings in ascending byte order (str's Ord), for the strings the model
\* sorts: environment names and output paths.
StringsAscending ==
  <<"A", "B", "SOME", "a-b", "a/b", "other/file", "path/to/file">>
StrRank(text) == CHOOSE i \in 1..Len(StringsAscending) : StringsAscending[i] = text
\* Path's Ord compares component by component, so "a/b" precedes "a-b".
PathsAscending ==
  <<"a/b", "a-b", "nonutf8", "other/file", "path/to/file">>
PathRank(path) == CHOOSE i \in 1..Len(PathsAscending) : PathsAscending[i] = path

\* The elements of a set in ascending order of rank (a function on the set).
RECURSIVE Ascending(_, _)
Ascending(set, rank) ==
  IF set = {} THEN <<>>
  ELSE LET least == CHOOSE x \in set : \A y \in set : rank[x] <= rank[y]
       IN <<least>> \o Ascending(set \ {least}, rank)

\* Path::to_str: None for a path that is not UTF-8.
NonUtf8Paths == {"nonutf8"}
to_str(path) == IF path \in NonUtf8Paths THEN [some |-> FALSE, value |-> ""]
                ELSE [some |-> TRUE, value |-> path]

\* ExecuteProcessRequest: env is a BTreeMap (pairs <<name, value>>, one per
\* name), output_files and output_directories are BTreeSets of paths.
ExecuteProcessRequest(argv, env, input_files, output_files, output_directories, timeout, description) ==
  [argv |-> argv, env |-> env, input_files |-> input_files,
   output_files |-> output_files, output_directories |-> output_directories,
   timeout |-> timeout, description |-> description]

\* remote_execution::Command and its serialization (write_to_bytes): the
\* arguments, then the environment variables, each field in order.
Command(arguments, environment_variables) ==
  [arguments |-> arguments, environment_variables |-> environment_variables]
RECURSIVE FlattenEnv(_)
FlattenEnv(vars) ==
  IF vars = <<>> THEN <<>>
  ELSE <<"n", Head(vars).name, "v", Head(vars).value>> \o FlattenEnv(Tail(vars))
write_to_bytes(command) ==
  <<ToString(Len(command.arguments))>> \o command.arguments
    \o FlattenEnv(command.environment_variables)

\* digest(message): Sha256 and length of the serialized message.
digest(command) ==
  LET bytes == write_to_bytes(command)
  IN ProtoDigest(to_hex(Sha256(bytes)), Len(bytes))

\* Mutant of CommandOf: the environment variables are pushed in descending
\* order of name.
CommandOf_descending(req) ==
  LET pairs == Ascending(req.env, [pair \in req.env |-> 0 - StrRank(pair[1])])
  IN Command(req.argv,
             [i \in 1..Len(pairs) |-> [name |-> pairs[i][1], value |-> pairs[i][2]]])

\* The Command of a request: argv as given, env in BTreeMap iteration order.
CommandOf(req) ==
  LET pairs == Ascending(req.env, [pair \in req.env |-> StrRank(pair[1])])
  IN Command(req.argv,
             [i \in 1..Len(pairs) |-> [name |-> pairs[i][1], value |-> pairs[i][2]]])

\* remote_execution::Action and ExecuteRequest.
Action(command_digest, input_root_digest, output_files) ==
  [command_digest |-> command_digest, input_root_digest |-> input_root_digest,
   output_files |-> output_files]
ExecuteRequest(action) == [action |-> action]
NoCommand == Command(<<>>, <<>>)
NoExecuteRequest == ExecuteRequest(Action(DefaultProtoDigest, DefaultProtoDigest, <<>>))

\* Mutant of make_execute_request: the output paths are left in the order the
\* BTreeSet of paths yields them.
make_execute_request_unsorted(req) ==
  LET command == CommandOf(req)
      paths == Ascending(req.output_files, [p \in req.output_files |-> PathRank(p)])
      bad == {i \in 1..Len(paths) : ~to_str(paths[i]).some}
  IN IF bad # {}
       THEN [ok |-> FALSE, command |-> NoCommand, execute_request |-> NoExecuteRequest,
             err |-> <<"Non-UTF8 output file path: ",
                       Quoted(paths[CHOOSE i \in bad : \A j \in bad : i <= j])>>]
       ELSE [ok |-> TRUE, command |-> command,
             execute_request |->
               ExecuteRequest(Action(digest(command), ToProtoDigest(req.input_files),
                                     [i \in 1..Len(paths) |-> to_str(paths[i]).value])),
             err |-> <<>>]

\* Mutant of make_execute_request: the output directories are listed among the
\* output files.
make_execute_request_with_directories(req) ==
  LET command == CommandOf(req)
      strings == {to_str(p).value : p \in req.output_files} \cup req.output_directories
  IN IF \E p \in req.output_files : ~to_str(p).some
       THEN [ok |-> FALSE, command |-> NoCommand, execute_request |-> NoExecuteRequest,
             err |-> <<"Non-UTF8 output file path: ">>]
       ELSE [ok |-> TRUE, command |-> command,
             execute_request |->
               ExecuteRequest(Action(digest(command), ToProtoDigest(req.input_files),
                                     Ascending(strings, [x \in strings |-> StrRank(x)]))),
             err |-> <<>>]

\* Mutant of make_execute_request: the description is passed on as the last
\* argument of the Command.
make_execute_request_with_description(req) ==
  LET command == [CommandOf(req) EXCEPT !.arguments = Append(@, req.description)]
      paths == Ascending(req.output_files, [p \in req.output_files |-> PathRank(p)])
      bad == {i \in 1..Len(paths) : ~to_str(paths[i]).some}
      strings == {to_str(p).value : p \in req.output_files}
      output_files == Ascending(strings, [x \in strings |-> StrRank(x)])
  IN IF bad # {}
       THEN [ok |-> FALSE, command |-> NoCommand, execute_request |-> NoExecuteRequest,
             err |-> <<"Non-UTF8 output file path: ",
                       Quoted(paths[CHOOSE i \in bad : \A j \in bad : i <= j])>>]
       ELSE [ok |-> TRUE, command |-> command,
             execute_request |->
               ExecuteRequest(Action(digest(command), ToProtoDigest(req.input_files),
                                     output_files)),
             err |-> <<>>]

make_execute_request(req) ==
  LET command == CommandOf(req)
      paths == Ascending(req.output_files, [p \in req.output_files |-> PathRank(p)])
      bad == {i \in 1..Len(paths) : ~to_str(paths[i]).some}
      strings == {to_str(p).value : p \in req.output_files}
      output_files == Ascending(strings, [x \in strings |-> StrRank(x)])
  IN IF bad # {}
       THEN [ok |-> FALSE, command |-> NoCommand, execute_request |-> NoExecuteRequest,
             err |-> <<"Non-UTF8 output file path: ",
                       Quoted(paths[CHOOSE i \in bad : \A j \in bad : i <= j])>>]
       ELSE [ok |-> TRUE, command |-> command,
             execute_request |->
               ExecuteRequest(Action(digest(command), ToProtoDigest(req.input_files),
                                     output_files)),
             err |-> <<>>]

\* ------------------------------------------------------------- the requests
\* The longest timeout explored, and a short one that polling exceeds.
LongTimeout == MaxTimeoutSteps * BACKOFF_INCR_WAIT_MILLIS
ShortTimeout == 2 * BACKOFF_INCR_WAIT_MILLIS
Timeouts == {ShortTimeout, LongTimeout}

echo_foo_request(timeout) ==
  ExecuteProcessRequest(<<"/bin/echo", "-n", "foo">>, {<<"SOME", "value">>},
                        DigestOf(EmptyBytes), {"path/to/file", "other/file"}, {},
                        timeout, "echo a foo")
non_utf8_request(timeout) ==
  ExecuteProcessRequest(<<"/bin/echo", "-n", "foo">>, {},
                        DigestOf(EmptyBytes), {"nonutf8", "other/file"}, {},
                        timeout, "echo to a bad path")
Requests ==
  {echo_foo_request(t) : t \in Timeouts} \cup {non_utf8_request(ShortTimeout)}

\* BTreeMap built by inserting the pairs of a sequence in order: a later
\* insert for a name replaces the earlier one.  BTreeSet likewise.
RECURSIVE BTreeMapOf(_)
BTreeMapOf(inserts) ==
  IF inserts = <<>> THEN {}
  ELSE LET last == inserts[Len(inserts)]
           before == BTreeMapOf(SubSeq(inserts, 1, Len(inserts) - 1))
       IN {pair \in before : pair[1] # last[1]} \cup {last}
RECURSIVE BTreeSetOf(_)
BTreeSetOf(inserts) ==
  IF inserts = <<>> THEN {}
  ELSE {Head(inserts)} \cup BTreeSetOf(Tail(inserts))

\* The sequences of at most two inserts of a caller.
Inserts(S) == {<<>>} \cup {<<x>> : x \in S} \cup {<<x, y>> : x \in S, y \in S}
EnvInsertions == Inserts({<<"A", "1">>, <<"B", "2">>, <<"A", "2">>})
PathInsertions == Inserts({"a/b", "a-b", "nonutf8"})

CanonArgvs == {<<"/bin/echo", "-n", "foo">>, <<"foo", "-n", "/bin/echo">>}

\* The requests make_execute_request is checked on.
CanonRequests ==
  {ExecuteProcessRequest(argv, BTreeMapOf(env), input_files, BTreeSetOf(paths),
                         output_directories, timeout, description) :
     argv \in CanonArgvs,
     env \in EnvInsertions,
     input_files \in {DigestOf(EmptyBytes), DigestOf(RolandBytes)},
     paths \in PathInsertions,
     output_directories \in {{}, {"other/file"}},
     timeout \in Timeouts,
     description \in {"echo a foo", "other"}}

\* The ExecuteProcessRequest given to run.
VARIABLE req

\* The fingerprints whose hex text can appear in a message of a run: those of
\* the file contents and of the serialized Command of the run's request.
Fingerprints ==
  {Sha256(b) : b \in Contents \cup {UnknownBytes, write_to_bytes(CommandOf(req))}}

\* Fingerprint::from_hex_string: hex text of either case decodes, anything
\* else is an error.
from_hex_string(text) ==
  LET cands == {fp \in Fingerprints : text \in {to_hex(fp), to_hex_upper(fp)}}
  IN IF cands = {}
       THEN [ok |-> FALSE, value |-> <<>>, err |-> <<"Invalid hex: ", text>>]
       ELSE [ok |-> TRUE, value |-> CHOOSE fp \in cands : TRUE, err |-> <<>>]

\* Into<Result<Digest, String>> for the protobuf digest.
FromProtoDigest(pd) ==
  LET fp == from_hex_string(pd.hash)
  IN IF fp.ok
       THEN [ok |-> TRUE, value |-> Digest(fp.value, pd.size_bytes), err |-> <<>>]
       ELSE [ok |-> FALSE, value |-> NoDigest,
             err |-> <<"Bad fingerprint in Digest ", pd.hash, ": ">> \o fp.err]

\* -------------------------------------------------------------- the Store
\* fs::Store as run() sees it: the byte strings held locally and the digests
\* the remote CAS holds.
StoreOf(local, remote) == [local |-> local, remote |-> remote]

\* store_file_bytes: persist locally, return the content's digest.
store_file_bytes(st, bytes) ==
  [store |-> StoreOf(st.local \cup {bytes}, st.remote), digest |-> DigestOf(bytes)]

\* load_file_bytes_with: Some(bytes) iff a blob with that digest is held.
load_file_bytes_with(st, d) ==
  LET held == {b \in st.local : DigestOf(b) = d}
  IN IF held = {}
       THEN [found |-> FALSE, value |-> <<>>]
       ELSE [found |-> TRUE, value |-> CHOOSE b \in held : TRUE]

HeldLocally(st, d) == \E b \in st.local : DigestOf(b) = d

RECURSIVE SeqToSet(_)
SeqToSet(s) == IF s = <<>> THEN {} ELSE {Head(s)} \cup SeqToSet(Tail(s))

\* ensure_remote_has_recursive(digests): the outcomes the store can produce.
\* Success requires every digest to be held locally and leaves the remote CAS
\* holding all of them; a digest not held locally fails with an error naming
\* its fingerprint; an upload can also fail for transport reasons.  A failed
\* call may have uploaded some of the blobs it did hold.
ensure_remote_has_recursive(st, digests) ==
  LET want == SeqToSet(digests)
      have == {d \in want : HeldLocally(st, d)}
      lost == want \ have
      oks == IF lost = {}
               THEN {[ok |-> TRUE, store |-> StoreOf(st.local, st.remote \cup want),
                      err |-> <<>>]}
               ELSE {}
      missing == {[ok |-> FALSE, store |-> StoreOf(st.local, st.remote \cup up),
                   err |-> <<"Failed to upload digest ", to_hex(d.fp), ": Not found">>]
                  : d \in lost, up \in {{}, have}}
      transport == {[ok |-> FALSE, store |-> StoreOf(st.local, st.remote),
                     err |-> <<"Error from server in response to find_missing_blobs_request">>]}
  IN oks \cup missing \cup (IF lost = {} THEN transport ELSE {})

\* ------------------------------------------------------ protobuf messages
\* google.rpc.Status.
Status(code, message, details) == [code |-> code, message |-> message, details |-> details]
DefaultStatus == Status(0, "", <<>>)

\* google.rpc.PreconditionFailure.Violation: field type and subject; the
\* subject is a sequence of text tokens, "/" being the separator character.
Violation(type, subject) == [type |-> type, subject |-> subject]
\* The serialized PreconditionFailure held by a detail: valid is FALSE for
\* bytes that do not decode.
PreconditionFailureBytes(valid, violations) == [valid |-> valid, violations |-> violations]
\* protobuf::well_known_types::Any.
AnyProto(type_url, value) == [type_url |-> type_url, value |-> value]
PreconditionFailureTypeUrl == "type.googleapis.com/google.rpc.PreconditionFailure"
ExecuteResponseTypeUrl == "type.googleapis.com/google.devtools.remoteexecution.v1test.ExecuteResponse"

\* remote_execution::OutputFile.
OutputFile(path, has_digest, pd, content, is_executable) ==
  [path |-> path, has_digest |-> has_digest, digest |-> pd, content |-> content,
   is_executable |-> is_executable]

\* remote_execution::ActionResult.
ActionResult(exit_code, stdout, stderr, output_files) ==
  [exit_code |-> exit_code,
   stdout_raw |-> stdout.raw, has_stdout_digest |-> stdout.has_digest,
   stdout_digest |-> stdout.digest,
   stderr_raw |-> stderr.raw, has_stderr_digest |-> stderr.has_digest,
   stderr_digest |-> stderr.digest,
   output_files |-> output_files]
\* The two ways a result carries stdout or stderr (a digest may come with raw
\* bytes set as well).
Raw(bytes) == [raw |-> bytes, has_digest |-> FALSE, digest |-> DefaultProtoDigest]
ByDigest(pd, raw) == [raw |-> raw, has_digest |-> TRUE, digest |-> pd]
DefaultActionResult == ActionResult(0, Raw(EmptyBytes), Raw(EmptyBytes), <<>>)

\* remote_execution::ExecuteResponse, and its serialized form inside
\* Operation.response.value (valid is FALSE for bytes merge_from_bytes rejects).
ExecuteResponse(status, result) == [status |-> status, result |-> result]
DefaultExecuteResponse == ExecuteResponse(DefaultStatus, DefaultActionResult)
ExecuteResponseBytes(valid, msg) == [valid |-> valid, msg |-> msg]
make_any_proto(response) == AnyProto(ExecuteResponseTypeUrl, ExecuteResponseBytes(TRUE, response))
DefaultAny == AnyProto("", ExecuteResponseBytes(TRUE, DefaultExecuteResponse))

\* operations::Operation.
Operation(name, done, has_error, error, has_response, response) ==
  [name |-> name, done |-> done, has_error |-> has_error, error |-> error,
   has_response |-> has_response, response |-> response]

\* FallibleExecuteProcessResult; output_directory is the directory digest,
\* modelled by the entries of the directory it names.
FallibleExecuteProcessResult(stdout, stderr, exit_code, output_directory) ==
  [stdout |-> stdout, stderr |-> stderr, exit_code |-> exit_code,
   output_directory |-> output_directory]
DirectoryDigest(entries) == [entries |-> entries]
EMPTY_DIGEST == DirectoryDigest({})
NoResult == FallibleExecuteProcessResult(EmptyBytes, EmptyBytes, 0, EMPTY_DIGEST)

\* ------------------------------------------------------------ format_error
\* bazel_protos::code::Code::from_i32 and the Debug text of the enum value.
CodeNames ==
  <<"OK", "CANCELLED", "UNKNOWN", "INVALID_ARGUMENT", "DEADLINE_EXCEEDED", "NOT_FOUND",
    "ALREADY_EXISTS", "PERMISSION_DENIED", "RESOURCE_EXHAUSTED", "FAILED_PRECONDITION",
    "ABORTED", "OUT_OF_RANGE", "UNIMPLEMENTED", "INTERNAL", "UNAVAILABLE", "DATA_LOSS",
    "UNAUTHENTICATED">>
Code_from_i32(code) ==
  IF code >= 0 /\ code < Len(CodeNames)
    THEN [some |-> TRUE, name |-> CodeNames[code + 1]]
    ELSE [some |-> FALSE, name |-> ""]

\* Mutant of format_error: the code is always printed as a number.
format_error_numeric(error) ==
  <<ToString(error.code), ": ", error.message>>

format_error(error) ==
  LET error_code_enum == Code_from_i32(error.code)
      error_code == IF error_code_enum.some THEN error_code_enum.name
                    ELSE ToString(error.code)
  IN <<error_code, ": ", error.message>>

\* grpcio::RpcStatusCode::from(i32) and its Debug text.
RpcStatusNames ==
  <<"Ok", "Cancelled", "Unknown", "InvalidArgument", "DeadlineExceeded", "NotFound",
    "AlreadyExists", "PermissionDenied", "ResourceExhausted", "FailedPrecondition",
    "Aborted", "OutOfRange", "Unimplemented", "Internal", "Unavailable", "DataLoss",
    "Unauthenticated">>
RpcStatusCode_from(code) ==
  IF code >= 0 /\ code < Len(RpcStatusNames) THEN code ELSE 2
RpcStatusName(code) == RpcStatusNames[RpcStatusCode_from(code) + 1]


\* ------------------------------------------------- stdout, stderr, files
\* How the store behaves during one extraction: "none" (every call succeeds),
\* "load" (loads fail) or "save" (saves fail).
StoreFaults == {"none", "load", "save"}

\* Debug text of a hashing::Digest.
DigestText(d) == <<"Digest(Fingerprint<", to_hex(d.fp), ">, ", ToString(d.size), ")">>

\* The outcome of one extraction step: the value or the Fatal message, the
\* store afterwards and whether the store was called.
Extracted(value, st, accessed) ==
  [ok |-> TRUE, value |-> value, err |-> <<>>, store |-> st, accessed |-> accessed]
ExtractFailed(value, err, st, accessed) ==
  [ok |-> FALSE, value |-> value, err |-> err, store |-> st, accessed |-> accessed]

\* Mutant of extract_stream: when the store has no blob for the digest the
\* inline bytes are returned.
extract_stream_fallback_raw(st, which, has_digest, proto_digest, raw, fault) ==
  IF has_digest /\ FromProtoDigest(proto_digest).ok
       /\ load_file_bytes_with(st, FromProtoDigest(proto_digest).value).found
    THEN Extracted(load_file_bytes_with(st, FromProtoDigest(proto_digest).value).value,
                   st, TRUE)
    ELSE IF fault = "save"
      THEN ExtractFailed(EmptyBytes,
             <<"Error storing raw ", which, ": ", "save failed">>, st, TRUE)
      ELSE Extracted(raw, store_file_bytes(st, raw).store, TRUE)

\* Mutant of extract_stream: inline bytes are returned without being stored.
extract_stream_unstored(st, which, has_digest, proto_digest, raw, fault) ==
  IF has_digest
    THEN LET digest_result == FromProtoDigest(proto_digest)
         IN IF ~digest_result.ok
              THEN ExtractFailed(EmptyBytes,
                     <<"Error extracting ", which, ": ">> \o digest_result.err, st, FALSE)
              ELSE LET maybe_value == load_file_bytes_with(st, digest_result.value)
                   IN IF maybe_value.found /\ fault # "load"
                        THEN Extracted(maybe_value.value, st, TRUE)
                        ELSE ExtractFailed(EmptyBytes,
                               <<"Couldn't find ", which, " digest (">>
                                 \o DigestText(digest_result.value)
                                 \o <<"), when fetching.">>, st, TRUE)
    ELSE Extracted(raw, st, FALSE)

\* extract_stdout and extract_stderr share one shape; which names the stream.
extract_stream(st, which, has_digest, proto_digest, raw, fault) ==
  IF has_digest
    THEN LET digest_result == FromProtoDigest(proto_digest)
         IN IF ~digest_result.ok
              THEN ExtractFailed(EmptyBytes,
                     <<"Error extracting ", which, ": ">> \o digest_result.err, st, FALSE)
              ELSE LET stream_digest == digest_result.value
                       maybe_value == load_file_bytes_with(st, stream_digest)
                   IN IF fault = "load"
                        THEN ExtractFailed(EmptyBytes,
                               <<"Error fetching ", which, " digest (">> \o DigestText(stream_digest)
                                 \o <<"): ", "load failed">>, st, TRUE)
                      ELSE IF maybe_value.found
                        THEN Extracted(maybe_value.value, st, TRUE)
                      ELSE ExtractFailed(EmptyBytes,
                             <<"Couldn't find ", which, " digest (">> \o DigestText(stream_digest)
                               \o <<"), when fetching.">>, st, TRUE)
    ELSE IF fault = "save"
      THEN ExtractFailed(EmptyBytes,
             <<"Error storing raw ", which, ": ", "save failed">>, st, TRUE)
      ELSE Extracted(raw, store_file_bytes(st, raw).store, TRUE)

extract_stdout(st, execute_response, fault) ==
  extract_stream(st, "stdout", execute_response.result.has_stdout_digest,
                 execute_response.result.stdout_digest,
                 execute_response.result.stdout_raw, fault)

extract_stderr(st, execute_response, fault) ==
  extract_stream(st, "stderr", execute_response.result.has_stderr_digest,
                 execute_response.result.stderr_digest,
                 execute_response.result.stderr_raw, fault)

\* Indices of the entries of output_files carrying inline content: one upload
\* task each.
InlineIndices(output_files) ==
  {i \in 1..Len(output_files) : ~output_files[i].has_digest}

\* The orders in which the upload tasks can complete.
CompletionOrders(output_files) ==
  LET idx == InlineIndices(output_files)
      n == Cardinality(idx)
  IN {o \in [1..n -> idx] : \A i, j \in 1..n : i # j => o[i] # o[j]}

\* The first entry whose digest does not convert (0 when all do): collect()
\* stops there.
RECURSIVE FirstBadDigest(_, _)
FirstBadDigest(output_files, i) ==
  IF i > Len(output_files) THEN 0
  ELSE IF output_files[i].has_digest /\ ~FromProtoDigest(output_files[i].digest).ok THEN i
  ELSE FirstBadDigest(output_files, i + 1)

\* HashMap::insert: a later insert for a path replaces the earlier one.
MapInsert(map, path, d) == (path :> d) @@ map
EmptyMap == [p \in {} |-> NoDigest]

\* The path map after the synchronous inserts of the digest-carrying entries.
RECURSIVE DirectInserts(_, _, _)
DirectInserts(output_files, i, map) ==
  IF i > Len(output_files) THEN map
  ELSE IF output_files[i].has_digest
    THEN DirectInserts(output_files, i + 1,
           MapInsert(map, output_files[i].path, FromProtoDigest(output_files[i].digest).value))
    ELSE DirectInserts(output_files, i + 1, map)

\* Mutant of TaskInserts: the snapshot is taken without joining the upload
\* tasks, whose inserts are then missing from the map.
TaskInserts_unjoined(output_files, order, k, map) == map

\* ... and after the upload tasks have completed in the given order.
RECURSIVE TaskInserts(_, _, _, _)
TaskInserts(output_files, order, k, map) ==
  IF k > Len(order) THEN map
  ELSE TaskInserts(output_files, order, k + 1,
         MapInsert(map, output_files[order[k]].path, DigestOf(output_files[order[k]].content)))

RECURSIVE StoreAll(_, _, _)
StoreAll(st, output_files, idx) ==
  IF idx = {} THEN st
  ELSE LET i == CHOOSE i \in idx : TRUE
       IN StoreAll(store_file_bytes(st, output_files[i].content).store, output_files,
                   idx \ {i})

\* Mutant of join_all: resolves as soon as one upload task has completed.
join_all_first(order, fault) ==
  IF fault = "save" /\ order # <<>>
    THEN [ok |-> FALSE, completed |-> 0]
    ELSE [ok |-> TRUE, completed |-> IF order = <<>> THEN 0 ELSE 1]

\* future::join_all(futures): resolves with the error of the first task that
\* fails, or when every task has completed; `completed` counts the tasks
\* that have run to their end when it resolves.
join_all(order, fault) ==
  IF fault = "save" /\ order # <<>>
    THEN [ok |-> FALSE, completed |-> 0]
    ELSE [ok |-> TRUE, completed |-> Len(order)]

\* The clones of the Arc around the path map that are alive when the first
\* `completed` upload tasks of the order have run to their end: path_map_2,
\* which the closure after join_all owns, and the path_map_3 of every task
\* that has not; path_map itself was dropped when extract_output_files
\* returned the future, and a task drops its clone with its closure.
Holders(order, completed) ==
  {<<"path_map_2", 0>>} \cup {<<"path_map_3", order[k]>> : k \in (completed + 1)..Len(order)}

\* Arc::try_unwrap: succeeds iff the Arc has exactly one strong reference.
try_unwrap(holders) == Cardinality(holders) = 1

\* fs::PathStat::file(path, File {path, is_executable}).
PathStat(path, is_executable) == [path |-> path, is_executable |-> is_executable]

PathStats(output_files) ==
  [i \in 1..Len(output_files) |->
     PathStat(output_files[i].path, output_files[i].is_executable)]

\* StoreOneOffRemoteDigest::store_by_digest.
store_by_digest(map_of_paths_to_digests, path) ==
  IF path \in DOMAIN map_of_paths_to_digests
    THEN [ok |-> TRUE, value |-> map_of_paths_to_digests[path], err |-> <<>>]
    ELSE [ok |-> FALSE, value |-> NoDigest,
          err |-> <<"Didn't know digest for path in remote execution response: ",
                    Quoted(path)>>]

\* fs::Snapshot::digest_from_path_stats: resolves every file through the
\* digester and names the directory holding them.
digest_from_path_stats(map_of_paths_to_digests, path_stats) ==
  LET unknown == {i \in 1..Len(path_stats) :
                    ~store_by_digest(map_of_paths_to_digests, path_stats[i].path).ok}
  IN IF unknown # {}
       THEN [ok |-> FALSE, value |-> EMPTY_DIGEST,
             err |-> store_by_digest(map_of_paths_to_digests,
                                     path_stats[CHOOSE i \in unknown : TRUE].path).err]
       ELSE [ok |-> TRUE,
             value |-> DirectoryDigest(
               {<<path_stats[i].path,
                  store_by_digest(map_of_paths_to_digests, path_stats[i].path).value,
                  path_stats[i].is_executable>> : i \in 1..Len(path_stats)}),
             err |-> <<>>]

\* extract_output_files, for one completion order of the upload tasks.
extract_output_files(st, execute_response, order, fault) ==
  LET output_files == execute_response.result.output_files
      bad == FirstBadDigest(output_files, 1)
  IN IF bad # 0
       THEN ExtractFailed(EMPTY_DIGEST, FromProtoDigest(output_files[bad].digest).err,
                          st, FALSE)
     ELSE IF ~join_all(order, fault).ok
       THEN ExtractFailed(EMPTY_DIGEST,
              <<"Error storing raw content for output file ",
                Quoted(output_files[order[1]].path), ": ", "save failed">>, st, TRUE)
     ELSE IF ~try_unwrap(Holders(order, join_all(order, fault).completed))
       THEN ExtractFailed(EMPTY_DIGEST,
              <<"called Result::unwrap() on an Err value">>,
              StoreAll(st, output_files, InlineIndices(output_files)), TRUE)
     ELSE LET path_map == TaskInserts(output_files, order, 1,
                                      DirectInserts(output_files, 1, EmptyMap))
              stored == StoreAll(st, output_files, InlineIndices(output_files))
              snapshot == digest_from_path_stats(path_map, PathStats(output_files))
          IN IF snapshot.ok
               THEN Extracted(snapshot.value, stored, TRUE)
               ELSE ExtractFailed(EMPTY_DIGEST,
                      <<"Error when storing the output file directory info in the remote CAS: ">>
                        \o snapshot.err, stored, TRUE)

\* ----------------------------------------------- FAILED_PRECONDITION details
\* str::split("/") over the subject's tokens.
RECURSIVE SplitFrom(_, _)
SplitFrom(rest, current) ==
  IF rest = <<>> THEN <<current>>
  ELSE IF Head(rest) = "/" THEN <<current>> \o SplitFrom(Tail(rest), <<>>)
  ELSE SplitFrom(Tail(rest), Append(current, Head(rest)))
split(subject) == SplitFrom(subject, <<>>)

\* The largest blob size whose decimal text the model parses.
MaxBlobSize == 7

\* str::parse::<usize>: decimal digits, an optional leading "+", leading zeros.
parse_usize(text) ==
  LET cands == {n \in 0..MaxBlobSize :
                  text \in {ToString(n), "+" \o ToString(n), "0" \o ToString(n)}}
  IN IF cands = {}
       THEN [ok |-> FALSE, value |-> 0, err |-> <<"invalid digit found in string">>]
       ELSE [ok |-> TRUE, value |-> CHOOSE n \in cands : TRUE, err |-> <<>>]

ViolationText(violation) ==
  <<"type: ", Quoted(violation.type), " subject: ", Quoted(Concat(violation.subject))>>

\* Mutant of missing_digests_from: a violation that is not a MISSING blob is
\* passed over and the digests of the others are returned.
RECURSIVE missing_digests_from_skipping(_, _, _)
missing_digests_from_skipping(violations, i, missing_digests) ==
  IF i > Len(violations)
    THEN [ok |-> TRUE, digests |-> missing_digests, err |-> <<>>]
  ELSE LET violation == violations[i]
           parts == split(violation.subject)
       IN IF violation.type # "MISSING" \/ Len(parts) # 3 \/ Concat(parts[1]) # "blobs"
               \/ ~from_hex_string(Concat(parts[2])).ok \/ ~parse_usize(Concat(parts[3])).ok
            THEN missing_digests_from_skipping(violations, i + 1, missing_digests)
          ELSE missing_digests_from_skipping(violations, i + 1,
                 Append(missing_digests, Digest(from_hex_string(Concat(parts[2])).value,
                                                parse_usize(Concat(parts[3])).value)))

\* Mutant of missing_digests_from: each digest is put in front of the list.
RECURSIVE missing_digests_from_reversed(_, _, _)
missing_digests_from_reversed(violations, i, missing_digests) ==
  IF i > Len(violations)
    THEN [ok |-> TRUE, digests |-> missing_digests, err |-> <<>>]
  ELSE LET violation == violations[i]
           parts == split(violation.subject)
       IN IF violation.type # "MISSING" \/ Len(parts) # 3 \/ Concat(parts[1]) # "blobs"
               \/ ~from_hex_string(Concat(parts[2])).ok \/ ~parse_usize(Concat(parts[3])).ok
            THEN [ok |-> FALSE, digests |-> <<>>,
                  err |-> <<"Didn't know how to process PreconditionFailure violation: ">>
                            \o ViolationText(violation)]
          ELSE missing_digests_from_reversed(violations, i + 1,
                 <<Digest(from_hex_string(Concat(parts[2])).value,
                          parse_usize(Concat(parts[3])).value)>> \o missing_digests)

\* The loop over the violations: the digests in the order listed, or the
\* Fatal message of the first violation that is not a MISSING blob.
RECURSIVE missing_digests_from(_, _, _)
missing_digests_from(violations, i, missing_digests) ==
  IF i > Len(violations)
    THEN [ok |-> TRUE, digests |-> missing_digests, err |-> <<>>]
  ELSE LET violation == violations[i]
           parts == split(violation.subject)
       IN IF violation.type # "MISSING"
            THEN [ok |-> FALSE, digests |-> <<>>,
                  err |-> <<"Didn't know how to process PreconditionFailure violation: ">>
                            \o ViolationText(violation)]
          ELSE IF Len(parts) # 3 \/ Concat(parts[1]) # "blobs"
            THEN [ok |-> FALSE, digests |-> <<>>,
                  err |-> <<"Received FailedPrecondition MISSING but didn't recognize subject ",
                            Concat(violation.subject)>>]
          ELSE LET fp == from_hex_string(Concat(parts[2]))
                   size == parse_usize(Concat(parts[3]))
               IN IF ~fp.ok
                    THEN [ok |-> FALSE, digests |-> <<>>,
                          err |-> <<"Bad digest in missing blob: ", Concat(parts[2]), ": ">>
                                    \o fp.err]
                  ELSE IF ~size.ok
                    THEN [ok |-> FALSE, digests |-> <<>>,
                          err |-> <<"Missing blob had bad size: ", Concat(parts[3]), ": ">>
                                    \o size.err]
                  ELSE missing_digests_from(violations, i + 1,
                         Append(missing_digests, Digest(fp.value, size.value)))

\* ------------------------------------------------ extract_execute_response
\* What the classifier yields: Ok(result) or one ExecutionError, with the
\* store afterwards and whether any store call was made.
Outcome(kind, result, err, digests, name, st, accessed) ==
  [kind |-> kind, result |-> result, err |-> err, digests |-> digests, name |-> name,
   store |-> st, accessed |-> accessed]
Done(result, st, accessed) == Outcome("Ok", result, <<>>, <<>>, "", st, accessed)
Fatal(err, st, accessed) == Outcome("Fatal", NoResult, err, <<>>, "", st, accessed)
MissingDigests(digests, st, accessed) ==
  Outcome("MissingDigests", NoResult, <<>>, digests, "", st, accessed)
NotFinished(name, st) == Outcome("NotFinished", NoResult, <<>>, <<>>, name, st, FALSE)

\* The FailedPrecondition arm of the match on the status code.
failed_precondition(execute_response, st, accessed) ==
  LET status == execute_response.status
  IN IF Len(status.details) # 1
       THEN Fatal(<<"Received multiple details in FailedPrecondition ExecuteResponse's status field: ",
                    ToString(Len(status.details))>>, st, accessed)
     ELSE LET details == status.details[1]
          IN IF details.type_url # PreconditionFailureTypeUrl
               THEN Fatal(<<"Received FailedPrecondition, but didn't know how to resolve it: ",
                            status.message, ",protobuf type ", details.type_url>>, st, accessed)
             ELSE IF ~details.value.valid
               THEN Fatal(<<"Error deserializing FailedPrecondition proto: ", "decode error">>,
                          st, accessed)
             ELSE LET parsed == missing_digests_from(details.value.violations, 1, <<>>)
                  IN IF ~parsed.ok THEN Fatal(parsed.err, st, accessed)
                     ELSE IF Len(parsed.digests) = 0
                       THEN Fatal(<<"Error from remote execution: FailedPrecondition, but no details">>,
                                  st, accessed)
                     ELSE MissingDigests(parsed.digests, st, accessed)

\* Mutant of match_status: a nonzero exit code is reported as a failure.
match_status_exit_code_error(execute_response, stdout, stderr, output_directory, st, accessed) ==
  IF execute_response.result.exit_code # 0
    THEN Fatal(<<"Process exited with code ",
                 ToString(execute_response.result.exit_code)>>, st, accessed)
    ELSE Done(FallibleExecuteProcessResult(stdout, stderr, 0, output_directory), st, accessed)

\* The match on the status code, once stdout, stderr and the output directory
\* have been extracted.
match_status(execute_response, stdout, stderr, output_directory, st, accessed) ==
  LET code == RpcStatusCode_from(execute_response.status.code)
  IN IF code = RpcOk
       THEN Done(FallibleExecuteProcessResult(stdout, stderr,
                   execute_response.result.exit_code, output_directory), st, accessed)
     ELSE IF code = RpcFailedPrecondition
       THEN failed_precondition(execute_response, st, accessed)
     ELSE Fatal(<<"Error from remote execution: ", RpcStatusName(code), ": ",
                  Quoted(execute_response.status.message)>>, st, accessed)

\* extract_stdout joined with extract_stderr and extract_output_files, then the
\* match: the outcomes for one completion order and one store behaviour.  When
\* several of the three fail, the join yields the error of whichever failed
\* first, and the writes of the others may or may not have happened.
joined(st, execute_response, order, fault) ==
  LET out == extract_stdout(st, execute_response, fault)
      err == extract_stderr(out.store, execute_response, fault)
      dir == extract_output_files(err.store, execute_response, order, fault)
      accessed == out.accessed \/ err.accessed \/ dir.accessed
      failures == (IF out.ok THEN {} ELSE {out.err}) \cup (IF err.ok THEN {} ELSE {err.err})
                    \cup (IF dir.ok THEN {} ELSE {dir.err})
  IN IF failures = {}
       THEN {match_status(execute_response, out.value, err.value, dir.value,
                          dir.store, accessed)}
       ELSE {Fatal(message, s, accessed) : message \in failures, s \in {st, dir.store}}

\* Mutant of classify_done: an absent response is read as the default one.
classify_done_default_response(st, operation) ==
  IF operation.has_error
    THEN {Fatal(format_error(operation.error), st, FALSE)}
  ELSE IF ~operation.response.value.valid
    THEN {Fatal(<<"Invalid ExecuteResponse: ", "decode error">>, st, FALSE)}
  ELSE LET execute_response == operation.response.value.msg
       IN UNION {joined(st, execute_response, order, fault) :
                   order \in CompletionOrders(execute_response.result.output_files),
                   fault \in StoreFaults}

\* The classification of a done operation (everything after the first check).
classify_done(st, operation) ==
  IF operation.has_error
    THEN {Fatal(format_error(operation.error), st, FALSE)}
  ELSE IF ~operation.has_response
    THEN {Fatal(<<"Operation finished but no response supplied">>, st, FALSE)}
  ELSE IF ~operation.response.value.valid
    THEN {Fatal(<<"Invalid ExecuteResponse: ", "decode error">>, st, FALSE)}
  ELSE LET execute_response == operation.response.value.msg
       IN UNION {joined(st, execute_response, order, fault) :
                   order \in CompletionOrders(execute_response.result.output_files),
                   fault \in StoreFaults}

\* Mutant of extract_execute_response: the error field is looked at first.
extract_execute_response_error_first(st, operation) ==
  IF operation.has_error
    THEN {Fatal(format_error(operation.error), st, FALSE)}
  ELSE IF ~operation.done
    THEN {NotFinished(operation.name, st)}
    ELSE classify_done(st, operation)

\* extract_execute_response: every outcome the classifier can yield for the
\* operation against the store.
extract_execute_response(st, operation) ==
  IF ~operation.done
    THEN {NotFinished(operation.name, st)}
    ELSE classify_done(st, operation)

\* ------------------------------------------------------ the server's replies
Int32Max == 2147483647
Int32Min == (-Int32Max) - 1
ExitCodes == {0, 1, 17, -1, Int32Max, Int32Min}

OperationNames == {"gimme-foo", "cat2"}

make_incomplete_operation(name) ==
  Operation(name, FALSE, FALSE, DefaultStatus, FALSE, DefaultAny)

make_successful_operation(name, stdout, stderr, exit_code) ==
  Operation(name, TRUE, FALSE, DefaultStatus, TRUE,
            make_any_proto(ExecuteResponse(DefaultStatus,
                             ActionResult(exit_code, stdout, stderr, <<>>))))

missing_preconditionfailure_violation(d) ==
  Violation("MISSING", <<"blobs", "/", to_hex(d.fp), "/", ToString(d.size)>>)

make_precondition_failure_operation(violations) ==
  Operation("cat", TRUE, FALSE, DefaultStatus, TRUE,
            make_any_proto(ExecuteResponse(
              Status(RpcFailedPrecondition, "",
                     <<AnyProto(PreconditionFailureTypeUrl,
                                PreconditionFailureBytes(TRUE, violations))>>),
              DefaultActionResult)))

make_error_operation(name, code, has_response) ==
  Operation(name, TRUE, TRUE, Status(code, "Something went wrong", <<>>), has_response,
            IF has_response
              THEN make_any_proto(ExecuteResponse(DefaultStatus,
                                    ActionResult(0, Raw(FooBytes), Raw(EmptyBytes), <<>>)))
              ELSE DefaultAny)

make_status_operation(name, code, exit_code) ==
  Operation(name, TRUE, FALSE, DefaultStatus, TRUE,
            make_any_proto(ExecuteResponse(Status(code, "Did not work", <<>>),
                             ActionResult(exit_code, Raw(FooBytes), Raw(EmptyBytes), <<>>))))

\* Error codes a done operation may carry: known ones, and numbers outside the
\* Code enum.
ErrorCodes == {1, 13, 555, -1}

IncompleteOperations ==
  {make_incomplete_operation(n) : n \in OperationNames}
    \cup {\* not done, yet with error and response fields set
          Operation("gimme-foo", FALSE, TRUE, Status(13, "Something went wrong", <<>>), TRUE,
                    make_any_proto(ExecuteResponse(DefaultStatus,
                                     ActionResult(0, Raw(FooBytes), Raw(EmptyBytes), <<>>)))),
          Operation("cat2", FALSE, TRUE, Status(1, "stale", <<>>), FALSE, DefaultAny)}

SuccessfulOperations ==
  {make_successful_operation("gimme-foo", Raw(FooBytes), Raw(EmptyBytes), c) : c \in ExitCodes}
    \cup {make_successful_operation("cat2", ByDigest(ToProtoDigest(DigestOf(b)), FooBytes),
                                    Raw(SimbaBytes), c) :
            b \in {RolandBytes, UnknownBytes}, c \in {0, 17}}
    \cup {make_successful_operation("cat2", Raw(RolandBytes),
                                    ByDigest(ProtoDigest("not hex", 3), EmptyBytes), 1)}
    \cup {make_successful_operation("cat2", Raw(FooBytes),
                                    ByDigest(ToProtoDigest(DigestOf(RolandBytes)), SimbaBytes), 0)}

ErrorOperations ==
  {make_error_operation("gimme-foo", c, r) : c \in ErrorCodes, r \in BOOLEAN}

MalformedOperations ==
  {Operation("gimme-foo", TRUE, FALSE, DefaultStatus, FALSE, DefaultAny),
   Operation("gimme-foo", TRUE, FALSE, DefaultStatus, TRUE,
             AnyProto(ExecuteResponseTypeUrl, ExecuteResponseBytes(FALSE, DefaultExecuteResponse)))}

PreconditionFailureOperations ==
  {make_precondition_failure_operation(v) :
     v \in {<<missing_preconditionfailure_violation(DigestOf(RolandBytes))>>,
            <<missing_preconditionfailure_violation(DigestOf(RolandBytes)),
              missing_preconditionfailure_violation(DigestOf(SimbaBytes))>>,
            <<missing_preconditionfailure_violation(DigestOf(UnknownBytes)),
              missing_preconditionfailure_violation(DigestOf(RolandBytes))>>,
            <<>>,
            <<missing_preconditionfailure_violation(DigestOf(RolandBytes)),
              Violation("OUT_OF_RANGE", <<"blobs", "/", "x">>)>>,
            <<missing_preconditionfailure_violation(DigestOf(RolandBytes)),
              Violation("MISSING", <<"monkeys", "/", to_hex(Sha256(SimbaBytes)), "/", "5">>)>>,
            <<Violation("MISSING", <<"blobs", "/", "not hex", "/", "6">>),
              missing_preconditionfailure_violation(DigestOf(RolandBytes))>>,
            <<missing_preconditionfailure_violation(DigestOf(RolandBytes)),
              Violation("MISSING", <<"blobs", "/", to_hex(Sha256(SimbaBytes)), "/", "five">>)>>,
            <<missing_preconditionfailure_violation(DigestOf(RolandBytes)),
              Violation("MISSING", <<"blobs", "/", to_hex(Sha256(SimbaBytes))>>)>>}}

OtherStatusOperations ==
  {make_status_operation("gimme-foo", c, e) : c \in {3, 14, 99}, e \in {0, 1}}

\* Responses whose status is not OK and whose result names a stdout or stderr
\* digest that no store holds.
StaleResultOperations ==
  {Operation("cat", TRUE, FALSE, DefaultStatus, TRUE,
             make_any_proto(ExecuteResponse(
               Status(RpcFailedPrecondition, "",
                      <<AnyProto(PreconditionFailureTypeUrl,
                                 PreconditionFailureBytes(TRUE,
                                   <<missing_preconditionfailure_violation(
                                       DigestOf(RolandBytes))>>))>>),
               ActionResult(0, ByDigest(ToProtoDigest(DigestOf(UnknownBytes)), EmptyBytes),
                            Raw(EmptyBytes), <<>>)))),
   Operation("gimme-foo", TRUE, FALSE, DefaultStatus, TRUE,
             make_any_proto(ExecuteResponse(
               Status(3, "Did not work", <<>>),
               ActionResult(1, Raw(EmptyBytes),
                            ByDigest(ToProtoDigest(DigestOf(UnknownBytes)), EmptyBytes),
                            <<>>))))}

\* A successful operation whose result lists output files.
make_output_files_operation(output_files) ==
  Operation("gimme-foo", TRUE, FALSE, DefaultStatus, TRUE,
            make_any_proto(ExecuteResponse(DefaultStatus,
                             ActionResult(0, Raw(EmptyBytes), Raw(EmptyBytes), output_files))))

\* Output file lists: one file by digest; an inline file and a nested file by
\* digest; two inline entries for one path; an entry whose digest is not hex.
OutputFileLists ==
  {<<OutputFile("cats/roland", TRUE, ToProtoDigest(DigestOf(RolandBytes)), EmptyBytes, FALSE)>>,
   <<OutputFile("foo", FALSE, DefaultProtoDigest, FooBytes, TRUE),
     OutputFile("cats/simba", TRUE, ToProtoDigest(DigestOf(SimbaBytes)), EmptyBytes, FALSE)>>,
   <<OutputFile("dup", FALSE, DefaultProtoDigest, FooBytes, FALSE),
     OutputFile("dup", FALSE, DefaultProtoDigest, SimbaBytes, FALSE)>>,
   <<OutputFile("foo", FALSE, DefaultProtoDigest, FooBytes, FALSE),
     OutputFile("bad", TRUE, ProtoDigest("not hex", 3), EmptyBytes, FALSE)>>}

OutputFileOperations == {make_output_files_operation(l) : l \in OutputFileLists}

\* Every operation the server may return to Execute or GetOperation.
Operations ==
  IncompleteOperations \cup SuccessfulOperations \cup ErrorOperations
    \cup MalformedOperations \cup PreconditionFailureOperations \cup OtherStatusOperations
    \cup StaleResultOperations \cup OutputFileOperations

\* A failed RPC, as grpcio reports it.
RpcFailure(status, details) == [rpc_failure |-> TRUE, status |-> status, details |-> details]
OtherGrpcError(description) == [rpc_failure |-> FALSE, status |-> 0, details |-> description]
GrpcErrors ==
  {RpcFailure(3, "Did not expect this request"), RpcFailure(14, ""),
   OtherGrpcError("RpcFinished")}

\* Mutant of map_grpc_result: only the message is kept.
map_grpc_result_message_only(error) == <<error.details>>

\* map_grpc_result, on the Err side: status and message of an RpcFailure
\* ("[no message]" when it has none), the description of any other error.
map_grpc_result(error) ==
  IF error.rpc_failure
    THEN <<RpcStatusName(error.status), ": ",
           Quoted(IF error.details = "" THEN "[no message]" ELSE error.details)>>
    ELSE <<error.details>>

\* ---------------------------------------------------- the connection handle
\* Resettable<T>: a lazy cell shared by its clones.  None until the first get,
\* which makes the value; reset drops it.  A value is written as a record of
\* its serial number (made counts the values the handle has ever made) and the
\* serial number of the value it was made from (0: none); reset_at is the
\* number of values the handle had made when it was last reset.
NoValue == [id |-> 0, from |-> 0]
Value(id, from) == [id |-> id, from |-> from]
\* CommandRunner::new: four empty cells.
NewHandle ==
  [env |-> NoValue, channel |-> NoValue, execution_client |-> NoValue,
   operations_client |-> NoValue, made |-> 0, reset_at |-> 0]

\* env.get(): Arc::new(grpcio::Environment::new(thread_count)) when empty.
get_env(h) ==
  IF h.env # NoValue THEN h
  ELSE [h EXCEPT !.env = Value(h.made + 1, 0), !.made = h.made + 1]
\* channel.get(): ChannelBuilder::new(env2.get()).connect(&address) when empty.
get_channel(h) ==
  IF h.channel # NoValue THEN h
  ELSE LET with_env == get_env(h)
       IN [with_env EXCEPT !.channel = Value(with_env.made + 1, with_env.env.id),
                           !.made = with_env.made + 1]
\* execution_client.get(): ExecutionClient::new(channel2.get()) when empty.
get_execution_client(h) ==
  IF h.execution_client # NoValue THEN h
  ELSE LET with_channel == get_channel(h)
       IN [with_channel EXCEPT
             !.execution_client = Value(with_channel.made + 1, with_channel.channel.id),
             !.made = with_channel.made + 1]
\* operations_client.get(): OperationsClient::new(channel3.get()) when empty.
get_operations_client(h) ==
  IF h.operations_client # NoValue THEN h
  ELSE LET with_channel == get_channel(h)
       IN [with_channel EXCEPT
             !.operations_client = Value(with_channel.made + 1, with_channel.channel.id),
             !.made = with_channel.made + 1]

\* Mutant of reset_prefork: the channel is kept.
reset_prefork_keeping_channel(h) ==
  [h EXCEPT !.env = NoValue, !.execution_client = NoValue, !.operations_client = NoValue,
            !.reset_at = h.made]

\* Mutant of reset_prefork: the two clients are kept.
reset_prefork_keeping_clients(h) ==
  [h EXCEPT !.channel = NoValue, !.env = NoValue, !.reset_at = h.made]

\* reset_prefork: reset() on the channel, the env and the two clients.
reset_prefork(h) ==
  [h EXCEPT !.channel = NoValue, !.env = NoValue, !.execution_client = NoValue,
            !.operations_client = NoValue, !.reset_at = h.made]

\* ==================================================================== run
VARIABLES
  server,           \* the execution server the run talks to
  pc,               \* where the future chain of run stands
  command,          \* the Command built by make_execute_request
  execute_request,  \* the ExecuteRequest built by make_execute_request
  operation,        \* loop state: the operation to classify
  iter_num,         \* loop state: the backoff iteration counter
  start_time,       \* Instant::now() taken when the first Execute returned
  now,              \* the clock
  store,            \* the Store: local blobs and remote CAS
  missing_digests,  \* the digests of the MissingDigests being handled
  operation_name,   \* the name in the GetOperationRequest being prepared
  backoff_period,   \* the delay computed for the poll being prepared
  result,           \* what run resolved to
  handle,           \* the cells of the CommandRunner: env, channel and clients
  peer,            \* the state of a second run on the same CommandRunner, suspended
  alone,            \* the stores this run could have left, had it run alone
  log               \* observations of the run's calls, kept for the properties

vars == <<req, server, pc, command, execute_request, operation, iter_num, start_time, now, store,
          missing_digests, operation_name, backoff_period, result, handle, peer, alone, log>>

NoOperation == make_incomplete_operation("")

\* What run resolves to: nothing yet, Ok(result) or Err(message).
Pending == [state |-> "pending", value |-> NoResult, err |-> <<>>]
Ok(value) == [state |-> "ok", value |-> value, err |-> <<>>]
Err(message) == [state |-> "err", value |-> NoResult, err |-> message]

\* The log: counters and last values of the calls run has made.
\*   executes, polls       Execute and GetOperation calls issued
\*   polls_since_execute   GetOperation calls issued since the last Execute
\*   not_finished          NotFinished observations since the last Execute
\*   last_poll_at, gap     when the last GetOperation was issued, and the time
\*                         between the last two (-1: fewer than two)
\*   polled_name           the name the last GetOperation carried
\*   polled_before         the name the last GetOperation before the most
\*                         recent Execute carried
\*   delay, slept          the last Delay requested and the time it took
\*   classified            the last outcome of the classifier
\*   ensure_called, ensure_ok, ensured
\*                         the ensure_remote_has_recursive call made since the
\*                         last classification, and its argument
\*   reported              every digest a MissingDigests has named
\*   failure, failed       the failure that was not recovered, once there is one
\*   remote0               what the remote CAS held when the run began
Observation(outcome) ==
  [kind |-> outcome.kind, err |-> outcome.err, digests |-> outcome.digests,
   name |-> outcome.name, accessed |-> outcome.accessed]
InitialLog ==
  [executes |-> 0, polls |-> 0, polls_since_execute |-> 0, not_finished |-> 0,
   last_poll_at |-> -1, gap |-> -1, polled_name |-> "", delay |-> 0, slept |-> 0,
   classified |-> Observation(NotFinished("", StoreOf({}, {}))), observed |-> FALSE,
   ensure_called |-> FALSE, ensure_ok |-> FALSE, ensured |-> <<>>,
   reported |-> {}, failure |-> <<>>, failed |-> FALSE, remote0 |-> {},
   first_executed_at |-> -1, executed_at |-> -1, requests |-> {}, uploads |-> 0,
   command_saved |-> FALSE, command_ensured |-> FALSE, polled_before |-> ""]

\* The execution servers a run is checked against.  "any" answers every call
\* with any operation or error, at once or late; "punctual" answers at once,
\* from a short script of operations, and serves the runs with a long timeout.
PunctualOperations ==
  {make_incomplete_operation(n) : n \in OperationNames}
    \cup {make_successful_operation("gimme-foo", Raw(FooBytes), Raw(EmptyBytes), 0),
          make_precondition_failure_operation(
            <<missing_preconditionfailure_violation(DigestOf(RolandBytes))>>),
          make_error_operation("gimme-foo", 13, FALSE)}
\* The replies of the server two concurrent runs are checked against.
SharedOperations ==
  {make_incomplete_operation("gimme-foo"),
   make_successful_operation("gimme-foo", Raw(RolandBytes), Raw(EmptyBytes), 0),
   make_successful_operation("cat2", ByDigest(ToProtoDigest(DigestOf(RolandBytes)), EmptyBytes),
                             Raw(EmptyBytes), 0),
   make_precondition_failure_operation(
     <<missing_preconditionfailure_violation(DigestOf(RolandBytes))>>)}
\* The replies of the server a run can go on forever against: every call is
\* answered, with an unfinished operation, a success, or a precondition
\* failure naming a blob the local store holds.
UnendingOperations ==
  {make_incomplete_operation("gimme-foo"),
   make_successful_operation("gimme-foo", Raw(FooBytes), Raw(EmptyBytes), 0),
   make_precondition_failure_operation(
     <<missing_preconditionfailure_violation(DigestOf(RolandBytes))>>)}
Replies(srv) ==
  CASE srv = "punctual" -> PunctualOperations
    [] srv = "shared" -> SharedOperations
    [] srv = "unending" -> UnendingOperations
    [] OTHER -> Operations
\* How long an RPC, an upload or the slack of a Delay can take; every call to
\* the unending server takes time.
Latencies(srv) ==
  CASE srv \in {"punctual", "shared"} -> {0}
    [] srv = "unending" -> {BACKOFF_INCR_WAIT_MILLIS}
    [] OTHER -> {0, BACKOFF_INCR_WAIT_MILLIS}
RpcErrors(srv) ==
  IF srv \in {"punctual", "shared", "unending"} THEN {RpcFailure(14, "")} ELSE GrpcErrors

\* The clock is followed up to the horizon, which no run with a deadline
\* reaches; a time at the horizon stands for every later time.
Horizon == LongTimeout + 2 * BACKOFF_MAX_WAIT_MILLIS
Later(t, d) == min(t + d, Horizon)

\* The runs checked: each request with the server it is run against.
Runs ==
  {[req |-> echo_foo_request(ShortTimeout), server |-> "any"],
   [req |-> non_utf8_request(ShortTimeout), server |-> "any"],
   [req |-> echo_foo_request(LongTimeout), server |-> "punctual"]}

\* No second run.
NoRun == [pc |-> "none"]

\* The ghost `alone` holds the stores the run could be left with had it run
\* alone: after a call on the store, the stores of the outcomes that show the
\* run what the actual outcome shows it.  With no second run the run is alone.
\* What the run sees of the outcome of a store call, and of a classification.
ShownOfCall(o) == <<o.ok, o.err>>
ShownOfOutcome(o) == <<o.kind, o.result, o.err, o.digests, o.name>>

\* The stores a run can start with: the local store may hold the roland blob;
\* the remote CAS holds nothing the local store does not.
InitialStores ==
  {StoreOf(local, remote) :
     local \in {{}, {RolandBytes}},
     remote \in {{}}}

Init ==
  /\ \E r \in Runs : req = r.req /\ server = r.server
  /\ pc = "make_execute_request"
  /\ command = NoCommand
  /\ execute_request = NoExecuteRequest
  /\ operation = NoOperation
  /\ iter_num = 0
  /\ start_time = 0
  /\ now = 0
  /\ store \in InitialStores
  /\ missing_digests = <<>>
  /\ operation_name = ""
  /\ backoff_period = 0
  /\ result = Pending
  /\ handle = NewHandle
  /\ peer = NoRun
  /\ alone = {store}
  /\ log = [InitialLog EXCEPT !.remote0 = store.remote]

\* Mutant of Fail: the failure is dropped and an empty result returned.
Fail_swallowed(message) ==
  /\ pc' = "returned"
  /\ result' = Ok(NoResult)

\* run resolves with an error: the failure goes to the caller.
Fail(message) ==
  /\ pc' = "returned"
  /\ result' = Err(message)

Failed(l, message) == [l EXCEPT !.failure = message, !.failed = TRUE]

\* ------------------------------------------------------------------ actions
\* make_execute_request(&req), and the conversion of the command digest.
MakeExecuteRequest ==
  /\ pc = "make_execute_request"
  /\ LET execute_request_result == make_execute_request(req)
         command_digest ==
           FromProtoDigest(execute_request_result.execute_request.action.command_digest)
     IN IF ~execute_request_result.ok
          THEN /\ Fail(execute_request_result.err)
               /\ log' = Failed(log, execute_request_result.err)
               /\ UNCHANGED <<command, execute_request>>
        ELSE IF ~command_digest.ok
          THEN /\ Fail(command_digest.err)
               /\ log' = Failed(log, command_digest.err)
               /\ UNCHANGED <<command, execute_request>>
        ELSE /\ pc' = "upload_command"
             /\ command' = execute_request_result.command
             /\ execute_request' = execute_request_result.execute_request
             /\ UNCHANGED <<result, log>>
  /\ UNCHANGED <<req, server, operation, iter_num, start_time, now, store, missing_digests,
                 operation_name, backoff_period>>
  /\ UNCHANGED handle
  /\ UNCHANGED <<peer, alone>>

\* Mutant of upload_command: the Command is stored locally and not ensured in
\* the remote CAS.
upload_command_local_only(st, cmd, command_digest) ==
  {[ok |-> TRUE, store |-> store_file_bytes(st, write_to_bytes(cmd)).store, err |-> <<>>,
    saved |-> TRUE, ensured |-> FALSE]}

\* Mutant of upload_command: a failure of the local store call is passed over.
upload_command_ignoring_save_failure(st, cmd, command_digest) ==
  LET command_bytes == write_to_bytes(cmd)
      saved == store_file_bytes(st, command_bytes).store
  IN {[ok |-> r.ok, store |-> r.store, saved |-> FALSE, ensured |-> TRUE,
       err |-> IF r.ok THEN <<>> ELSE <<"Error uploading command ">> \o r.err] :
        r \in ensure_remote_has_recursive(st, <<command_digest>>)}
     \cup {[ok |-> r.ok, store |-> r.store, saved |-> TRUE, ensured |-> TRUE,
            err |-> IF r.ok THEN <<>> ELSE <<"Error uploading command ">> \o r.err] :
             r \in ensure_remote_has_recursive(saved, <<command_digest>>)}

\* upload_command: the outcomes of serializing the Command, storing the bytes
\* locally and then ensuring the remote CAS holds its digest.  write_to_bytes
\* returns a Result; its error, like that of the store call, passes through
\* the map_err of the local store step.  An outcome tells whether the bytes
\* were saved and whether ensure_remote_has_recursive was called.
upload_command(st, cmd, command_digest) ==
  LET command_bytes == write_to_bytes(cmd)
      saved == store_file_bytes(st, command_bytes).store
  IN {[ok |-> FALSE, store |-> st, saved |-> FALSE, ensured |-> FALSE,
       err |-> <<"Error saving digest to local store: ", cause>>] :
        cause \in {Quoted("Error serializing command"), "save failed"}}
     \cup {[ok |-> r.ok, store |-> r.store, saved |-> TRUE, ensured |-> TRUE,
            err |-> IF r.ok THEN <<>> ELSE <<"Error uploading command ">> \o r.err] :
             r \in ensure_remote_has_recursive(saved, <<command_digest>>)}

\* The log after upload_command has resolved.
CommandUploaded(l, uploaded) ==
  [l EXCEPT !.uploads = @ + 1, !.command_saved = uploaded.saved,
            !.command_ensured = uploaded.ensured]

UploadCommand ==
  /\ pc = "upload_command"
  /\ \E uploads \in {[a \in alone \cup {store} |->
                        upload_command(a, command,
                          FromProtoDigest(execute_request.action.command_digest).value)]} :
     \E uploaded \in uploads[store] :
       /\ store' = uploaded.store
       /\ alone' = IF peer = NoRun THEN {uploaded.store}
                    ELSE {o.store : o \in {o \in UNION {uploads[a] : a \in alone} :
                                             ShownOfCall(o) = ShownOfCall(uploaded)}}
       /\ IF uploaded.ok
            THEN /\ pc' = "execute"
                 /\ log' = CommandUploaded(log, uploaded)
                 /\ UNCHANGED result
            ELSE /\ Fail(uploaded.err)
                 /\ log' = Failed(CommandUploaded(log, uploaded), uploaded.err)
  /\ UNCHANGED <<req, server, command, execute_request, operation, iter_num, start_time, now,
                 missing_digests, operation_name, backoff_period>>
  /\ UNCHANGED handle
  /\ UNCHANGED peer

\* The log after an Execute call carrying execute_request has resolved at time
\* `at`.
Executed(l, at) ==
  [l EXCEPT !.executes = IF @ < MaxExecutes THEN @ + 1 ELSE @,
            !.polls_since_execute = 0, !.not_finished = 0,
            !.first_executed_at = IF l.executes = 0 THEN at ELSE @, !.executed_at = at,
            !.requests = @ \cup {execute_request},
            !.polled_before = l.polled_name]

\* Mutant of Execute: the start time is taken when the call is issued.
Execute_starting_at_the_call ==
  /\ pc = "execute"
  /\ log.executes < MaxExecutes \/ server = "unending"
  /\ \E latency \in Latencies(server) :
       /\ now' = Later(now, latency)
       /\ \/ \E reply \in Replies(server) :
               /\ operation' = reply
               /\ iter_num' = 0
               /\ start_time' = now
               /\ pc' = "extract_execute_response"
               /\ log' = Executed(log, now')
               /\ UNCHANGED result
          \/ \E error \in RpcErrors(server) :
               /\ Fail(map_grpc_result(error))
               /\ log' = Failed(Executed(log, now'), map_grpc_result(error))
               /\ UNCHANGED <<operation, iter_num, start_time>>
  /\ UNCHANGED <<req, server, command, execute_request, store, missing_digests, operation_name,
                 backoff_period>>
  /\ handle' = get_execution_client(handle)
  /\ UNCHANGED <<peer, alone>>

\* execution_client.execute(&execute_request): the first submission.  The
\* start time is taken when the reply arrives.
Execute ==
  /\ pc = "execute"
  /\ log.executes < MaxExecutes \/ server = "unending"
  /\ \E latency \in Latencies(server) :
       /\ now' = Later(now, latency)
       /\ \/ \E reply \in Replies(server) :
               /\ operation' = reply
               /\ iter_num' = 0
               /\ start_time' = now'
               /\ pc' = "extract_execute_response"
               /\ log' = Executed(log, now')
               /\ UNCHANGED result
          \/ \E error \in RpcErrors(server) :
               /\ Fail(map_grpc_result(error))
               /\ log' = Failed(Executed(log, now'), map_grpc_result(error))
               /\ UNCHANGED <<operation, iter_num, start_time>>
  /\ UNCHANGED <<req, server, command, execute_request, store, missing_digests, operation_name,
                 backoff_period>>
  /\ handle' = get_execution_client(handle)
  /\ UNCHANGED <<peer, alone>>

\* Mutant of backoff: no wait at all.
backoff_none(iter) == 0

\* Mutants of backoff: without the cap, and without the growth.
backoff_uncapped(iter) == (1 + iter) * BACKOFF_INCR_WAIT_MILLIS
backoff_flat(iter) == BACKOFF_INCR_WAIT_MILLIS

\* The backoff period computed for the poll that follows iteration iter.
backoff(iter) ==
  min(BACKOFF_MAX_WAIT_MILLIS, (1 + iter) * BACKOFF_INCR_WAIT_MILLIS)

\* The message of the timeout failure.
exceeded_time_out(timeout, elapsed, name, description) ==
  <<"Exceeded time out of ", ToString(timeout), " with ", ToString(elapsed),
    " for operation ", name, ", ", description>>

\* Mutant of timed_out: the deadline itself is already too late.
timed_out_at_deadline(elapsed, timeout) == elapsed >= timeout

\* Mutant of timed_out: no deadline at all.
timed_out_never(elapsed, timeout) == FALSE

\* The deadline test of the NotFinished arm.
timed_out(elapsed, timeout) == elapsed > timeout

\* Mutant of missing_digests_arm: re-submits without uploading.
missing_digests_arm_no_upload(digests) ==
  /\ pc' = "execute_again"
  /\ missing_digests' = digests

\* Mutant of missing_digests_arm: past the deadline the missing digests are not
\* uploaded, the loop goes to its sleep instead.
missing_digests_arm_within_deadline(digests) ==
  /\ pc' = IF now - start_time > req.timeout THEN "delay" ELSE "ensure_remote_has_recursive"
  /\ missing_digests' = digests

\* The MissingDigests arm: the digests go to ensure_remote_has_recursive.
missing_digests_arm(digests) ==
  /\ pc' = "ensure_remote_has_recursive"
  /\ missing_digests' = digests

\* The log after the classifier has yielded an outcome.
Classified(l, outcome) ==
  [l EXCEPT !.classified = Observation(outcome), !.observed = TRUE,
            !.ensure_called = FALSE, !.ensure_ok = FALSE, !.ensured = <<>>,
            !.not_finished = IF outcome.kind = "NotFinished" THEN @ + 1 ELSE @,
            !.reported = IF outcome.kind = "MissingDigests"
                           THEN @ \cup SeqToSet(outcome.digests) ELSE @]

\* One turn of the loop: extract_execute_response(operation) and the match on
\* what it yields.
ExtractExecuteResponse ==
  /\ pc = "extract_execute_response"
  /\ \E outcomes \in {[a \in alone \cup {store} |-> extract_execute_response(a, operation)]} :
     \E outcome \in outcomes[store] :
       /\ store' = outcome.store
       /\ alone' = IF peer = NoRun THEN {outcome.store}
                    ELSE {o.store : o \in {o \in UNION {outcomes[a] : a \in alone} :
                                             ShownOfOutcome(o) = ShownOfOutcome(outcome)}}
       /\ CASE outcome.kind = "Ok" ->
                 /\ pc' = "returned"
                 /\ result' = Ok(outcome.result)
                 /\ log' = Classified(log, outcome)
                 /\ UNCHANGED <<missing_digests, operation_name, backoff_period>>
            [] outcome.kind = "Fatal" ->
                 /\ Fail(outcome.err)
                 /\ log' = Failed(Classified(log, outcome), outcome.err)
                 /\ UNCHANGED <<missing_digests, operation_name, backoff_period>>
            [] outcome.kind = "MissingDigests" ->
                 /\ missing_digests_arm(outcome.digests)
                 /\ log' = Classified(log, outcome)
                 /\ UNCHANGED <<result, operation_name, backoff_period>>
            [] outcome.kind = "NotFinished" ->
                 LET elapsed == now - start_time
                     message == exceeded_time_out(req.timeout, elapsed, outcome.name,
                                                  req.description)
                 IN /\ operation_name' = outcome.name
                    /\ backoff_period' = backoff(iter_num)
                    /\ UNCHANGED missing_digests
                    /\ IF timed_out(elapsed, req.timeout)
                         THEN /\ Fail(message)
                              /\ log' = Failed(Classified(log, outcome), message)
                         ELSE /\ pc' = "delay"
                              /\ log' = Classified(log, outcome)
                              /\ UNCHANGED result
  /\ UNCHANGED <<req, server, command, execute_request, operation, iter_num, start_time, now>>
  /\ UNCHANGED handle
  /\ UNCHANGED peer

\* The log after ensure_remote_has_recursive(digests) has resolved.
Ensured(l, digests, ok) ==
  [l EXCEPT !.ensure_called = TRUE, !.ensure_ok = ok, !.ensured = digests]

\* Mutant of after_ensure: a failed upload does not stop the re-submission.
after_ensure_ignoring_failure(ensured) ==
  /\ pc' = "execute_again"
  /\ log' = Ensured(log, missing_digests, ensured.ok)
  /\ UNCHANGED result

\* Mutant of after_ensure: the Command is uploaded again before the
\* re-submission.
after_ensure_uploading_command(ensured) ==
  IF ensured.ok
    THEN /\ pc' = "upload_command"
         /\ log' = Ensured(log, missing_digests, TRUE)
         /\ UNCHANGED result
    ELSE /\ Fail(ensured.err)
         /\ log' = Failed(Ensured(log, missing_digests, FALSE), ensured.err)

\* What follows ensure_remote_has_recursive: the re-submission when it
\* succeeded, its error to the caller when it failed.
after_ensure(ensured) ==
  IF ensured.ok
    THEN /\ pc' = "execute_again"
         /\ log' = Ensured(log, missing_digests, TRUE)
         /\ UNCHANGED result
    ELSE /\ Fail(ensured.err)
         /\ log' = Failed(Ensured(log, missing_digests, FALSE), ensured.err)

\* store.ensure_remote_has_recursive(missing_digests).
EnsureRemoteHasRecursive ==
  /\ pc = "ensure_remote_has_recursive"
  /\ \E ensures \in {[a \in alone \cup {store} |->
                        ensure_remote_has_recursive(a, missing_digests)]} :
     \E latency \in Latencies(server), ensured \in ensures[store] :
       /\ now' = Later(now, latency)
       /\ store' = ensured.store
       /\ alone' = IF peer = NoRun THEN {ensured.store}
                    ELSE {o.store : o \in {o \in UNION {ensures[a] : a \in alone} :
                                             ShownOfCall(o) = ShownOfCall(ensured)}}
       /\ after_ensure(ensured)
  /\ UNCHANGED <<req, server, command, execute_request, operation, iter_num, start_time,
                 missing_digests, operation_name, backoff_period>>
  /\ UNCHANGED handle
  /\ UNCHANGED peer

\* Mutant of ExecuteAgain: the re-submission takes a new start time.
ExecuteAgain_resetting_start_time ==
  /\ pc = "execute_again"
  /\ log.executes < MaxExecutes \/ server = "unending"
  /\ \E latency \in Latencies(server) :
       /\ now' = Later(now, latency)
       /\ \/ \E reply \in Replies(server) :
               /\ operation' = reply
               /\ iter_num' = 0
               /\ start_time' = now'
               /\ pc' = "extract_execute_response"
               /\ log' = Executed(log, now')
               /\ UNCHANGED result
          \/ \E error \in RpcErrors(server) :
               /\ Fail(map_grpc_result(error))
               /\ log' = Failed(Executed(log, now'), map_grpc_result(error))
               /\ UNCHANGED <<operation, iter_num, start_time>>
  /\ UNCHANGED <<req, server, command, execute_request, store, missing_digests,
                 operation_name, backoff_period>>
  /\ handle' = get_execution_client(handle)
  /\ UNCHANGED <<peer, alone>>

\* The re-submission: execute(&execute_request) again, the loop continuing
\* with the new operation and iter_num 0.
ExecuteAgain ==
  /\ pc = "execute_again"
  /\ log.executes < MaxExecutes \/ server = "unending"
  /\ \E latency \in Latencies(server) :
       /\ now' = Later(now, latency)
       /\ \/ \E reply \in Replies(server) :
               /\ operation' = reply
               /\ iter_num' = 0
               /\ pc' = "extract_execute_response"
               /\ log' = Executed(log, now')
               /\ UNCHANGED result
          \/ \E error \in RpcErrors(server) :
               /\ Fail(map_grpc_result(error))
               /\ log' = Failed(Executed(log, now'), map_grpc_result(error))
               /\ UNCHANGED <<operation, iter_num>>
  /\ UNCHANGED <<req, server, command, execute_request, start_time, store, missing_digests,
                 operation_name, backoff_period>>
  /\ handle' = get_execution_client(handle)
  /\ UNCHANGED <<peer, alone>>

\* Mutant of Delay: the sleep is cut to the time left before the deadline.
Delay_until_deadline ==
  /\ pc = "delay"
  /\ \/ \E slack \in Latencies(server) :
          \E remaining \in {min(backoff_period, req.timeout - (now - start_time))} :
            /\ now' = Later(now, remaining + slack)
            /\ pc' = "get_operation"
            /\ log' = [log EXCEPT !.delay = backoff_period, !.slept = remaining + slack]
            /\ UNCHANGED result
     \/ LET message == <<"Future-Delay errored at operation result polling for ",
                         operation_name, ", ", req.description, ": ", "timer gone">>
        IN /\ Fail(message)
           /\ log' = Failed(log, message)
           /\ UNCHANGED now
  /\ UNCHANGED <<req, server, command, execute_request, operation, iter_num, start_time, store,
                 missing_digests, operation_name, backoff_period>>
  /\ UNCHANGED handle
  /\ UNCHANGED <<peer, alone>>

\* Mutant of Delay: the loop does not wait.
Delay_not_waiting ==
  /\ pc = "delay"
  /\ \/ \E slack \in Latencies(server) :
          /\ now' = now
          /\ pc' = "get_operation"
          /\ log' = [log EXCEPT !.delay = backoff_period, !.slept = backoff_period + slack]
          /\ UNCHANGED result
     \/ LET message == <<"Future-Delay errored at operation result polling for ",
                         operation_name, ", ", req.description, ": ", "timer gone">>
        IN /\ Fail(message)
           /\ log' = Failed(log, message)
           /\ UNCHANGED now
  /\ UNCHANGED <<req, server, command, execute_request, operation, iter_num, start_time, store,
                 missing_digests, operation_name, backoff_period>>
  /\ UNCHANGED handle
  /\ UNCHANGED <<peer, alone>>

\* Delay::new(backoff_period): fires no earlier than asked, or errors.
Delay ==
  /\ pc = "delay"
  /\ \/ \E slack \in Latencies(server) :
          /\ now' = Later(now, backoff_period + slack)
          /\ pc' = "get_operation"
          /\ log' = [log EXCEPT !.delay = backoff_period, !.slept = backoff_period + slack]
          /\ UNCHANGED result
     \/ LET message == <<"Future-Delay errored at operation result polling for ",
                         operation_name, ", ", req.description, ": ", "timer gone">>
        IN /\ Fail(message)
           /\ log' = Failed(log, message)
           /\ UNCHANGED now
  /\ UNCHANGED <<req, server, command, execute_request, operation, iter_num, start_time, store,
                 missing_digests, operation_name, backoff_period>>
  /\ UNCHANGED handle
  /\ UNCHANGED <<peer, alone>>

\* Mutant of get_operation_request: the request keeps the name of the first
\* operation the run polled.
get_operation_request_first_name(name) ==
  [name |-> IF log.polls = 0 THEN name ELSE log.polled_name]

\* The GetOperationRequest of the NotFinished arm: set_name(operation_name).
get_operation_request(name) == [name |-> name]

\* The log after a GetOperation call is issued at time t for name.
Polled(l, t, name) ==
  [l EXCEPT !.polls = @ + 1, !.polls_since_execute = @ + 1,
            !.gap = IF l.last_poll_at < 0 THEN -1 ELSE t - l.last_poll_at,
            !.last_poll_at = t, !.polled_name = name]

\* operations_client.get_operation(&operation_request).
GetOperation ==
  /\ pc = "get_operation"
  /\ \E latency \in Latencies(server) :
       /\ now' = Later(now, latency)
       /\ \/ \E reply \in Replies(server) :
               /\ operation' = reply
               /\ iter_num' = iter_num + 1
               /\ pc' = "extract_execute_response"
               /\ log' = Polled(log, now, get_operation_request(operation_name).name)
               /\ UNCHANGED result
          \/ \E error \in RpcErrors(server) :
               /\ Fail(map_grpc_result(error))
               /\ log' = Failed(Polled(log, now, get_operation_request(operation_name).name),
                                 map_grpc_result(error))
               /\ UNCHANGED <<operation, iter_num>>
  /\ UNCHANGED <<req, server, command, execute_request, start_time, store, missing_digests,
                 operation_name, backoff_period>>
  /\ handle' = get_operations_client(handle)
  /\ UNCHANGED <<peer, alone>>

Next ==
  \/ MakeExecuteRequest
  \/ UploadCommand
  \/ Execute
  \/ ExtractExecuteResponse
  \/ EnsureRemoteHasRecursive
  \/ ExecuteAgain
  \/ Delay
  \/ GetOperation

Spec == Init /\ [][Next]_vars

\* The run against the unending server, the local store holding the blob the
\* server reports missing.  The executor polls the future as long as it is
\* not resolved, so a step that can be taken is taken.
InitUnending ==
  /\ req = echo_foo_request(ShortTimeout)
  /\ server = "unending"
  /\ pc = "make_execute_request"
  /\ command = NoCommand
  /\ execute_request = NoExecuteRequest
  /\ operation = NoOperation
  /\ iter_num = 0
  /\ start_time = 0
  /\ now = 0
  /\ store = StoreOf({RolandBytes}, {})
  /\ missing_digests = <<>>
  /\ operation_name = ""
  /\ backoff_period = 0
  /\ result = Pending
  /\ handle = NewHandle
  /\ peer = NoRun
  /\ alone = {store}
  /\ log = InitialLog

SpecUnending == InitUnending /\ [][Next]_vars /\ WF_vars(Next)

\* make_execute_request on its own: run called with any of the requests above,
\* followed up to the point where the request has been built or refused.
InitCanon ==
  /\ req \in CanonRequests
  /\ server = "punctual"
  /\ pc = "make_execute_request"
  /\ command = NoCommand
  /\ execute_request = NoExecuteRequest
  /\ operation = NoOperation
  /\ iter_num = 0
  /\ start_time = 0
  /\ now = 0
  /\ store = StoreOf({}, {})
  /\ missing_digests = <<>>
  /\ operation_name = ""
  /\ backoff_period = 0
  /\ result = Pending
  /\ handle = NewHandle
  /\ peer = NoRun
  /\ alone = {store}
  /\ log = InitialLog

NextCanon == MakeExecuteRequest

SpecCanon == InitCanon /\ [][NextCanon]_vars

\* reset_prefork called on the CommandRunner between the steps of a run.  The
\* values the handle may make are bounded.
ResetPrefork ==
  /\ handle.made + 4 <= MaxValuesMade
  /\ handle' = reset_prefork(handle)
  /\ UNCHANGED <<req, server, pc, command, execute_request, operation, iter_num, start_time,
                 now, store, missing_digests, operation_name, backoff_period, result, peer, alone,
                 log>>

\* A run with a short timeout against the punctual server, with reset_prefork
\* called at any moment no RPC is in flight.
InitHandle ==
  /\ req = echo_foo_request(ShortTimeout)
  /\ server = "punctual"
  /\ pc = "make_execute_request"
  /\ command = NoCommand
  /\ execute_request = NoExecuteRequest
  /\ operation = NoOperation
  /\ iter_num = 0
  /\ start_time = 0
  /\ now = 0
  /\ store = StoreOf({RolandBytes}, {})
  /\ missing_digests = <<>>
  /\ operation_name = ""
  /\ backoff_period = 0
  /\ result = Pending
  /\ handle = NewHandle
  /\ peer = NoRun
  /\ alone = {store}
  /\ log = InitialLog

NextHandle ==
  \/ Next
  \/ ResetPrefork

SpecHandle == InitHandle /\ [][NextHandle]_vars

\* Mutant of Suspended: the iteration counter is not kept with the run.
Suspended_sharing_iter_num ==
  [req |-> req, pc |-> pc, command |-> command, execute_request |-> execute_request,
   operation |-> operation, iter_num |-> peer.iter_num, start_time |-> start_time,
   missing_digests |-> missing_digests, operation_name |-> operation_name,
   backoff_period |-> backoff_period, result |-> result, alone |-> alone, log |-> log]

\* What a run's future owns while it is suspended: the request, the Command
\* and ExecuteRequest, the loop state (operation, iter_num), start_time, what
\* the arm in progress captured, and its result.
Suspended ==
  [req |-> req, pc |-> pc, command |-> command, execute_request |-> execute_request,
   operation |-> operation, iter_num |-> iter_num, start_time |-> start_time,
   missing_digests |-> missing_digests, operation_name |-> operation_name,
   backoff_period |-> backoff_period, result |-> result, alone |-> alone, log |-> log]

\* The executor turns to the other run: the run that was stepping is suspended
\* and the suspended one goes on from where it stood.  The store, the handle,
\* the server and the clock are common to both.
Switch ==
  /\ peer # NoRun
  /\ peer' = Suspended
  /\ req' = peer.req
  /\ pc' = peer.pc
  /\ command' = peer.command
  /\ execute_request' = peer.execute_request
  /\ operation' = peer.operation
  /\ iter_num' = peer.iter_num
  /\ start_time' = peer.start_time
  /\ missing_digests' = peer.missing_digests
  /\ operation_name' = peer.operation_name
  /\ backoff_period' = peer.backoff_period
  /\ result' = peer.result
  /\ alone' = peer.alone
  /\ log' = peer.log
  /\ UNCHANGED <<server, now, store, handle>>

\* Two runs of the same request on one CommandRunner, against the shared
\* server, from an empty store.
InitShared ==
  /\ req = echo_foo_request(ShortTimeout)
  /\ server = "shared"
  /\ pc = "make_execute_request"
  /\ command = NoCommand
  /\ execute_request = NoExecuteRequest
  /\ operation = NoOperation
  /\ iter_num = 0
  /\ start_time = 0
  /\ now = 0
  /\ store = StoreOf({}, {})
  /\ missing_digests = <<>>
  /\ operation_name = ""
  /\ backoff_period = 0
  /\ result = Pending
  /\ handle = NewHandle
  /\ alone = {store}
  /\ log = InitialLog
  /\ peer = [req |-> req, pc |-> "make_execute_request", command |-> NoCommand,
             execute_request |-> NoExecuteRequest, operation |-> NoOperation, iter_num |-> 0,
             start_time |-> 0, missing_digests |-> <<>>, operation_name |-> "",
             backoff_period |-> 0, result |-> Pending, alone |-> {store}, log |-> InitialLog]

NextShared ==
  \/ Next
  \/ Switch

SpecShared == InitShared /\ [][NextShared]_vars

\* =============================================================== properties
Elapsed == now - start_time

\* The timeout failure: its message names the timeout and the description.
IsTimeoutFailure(r) ==
  /\ r.state = "err"
  /\ Contains(r.err, "Exceeded time out of ")
  /\ Contains(r.err, req.description)

\* C1: a re-submission is issued only after the classifier yielded
\* MissingDigests(L) and ensure_remote_has_recursive was called with exactly L
\* and succeeded; the Execute that follows starts the backoff counter at 0
\* again, so the first delay after it is the first backoff period.
C1_Uploaded ==
  /\ log.classified.kind = "MissingDigests"
  /\ log.ensure_called
  /\ log.ensure_ok
  /\ log.ensured = log.classified.digests

C1_UploadBeforeResubmit ==
  /\ pc = "ensure_remote_has_recursive" =>
       (log.classified.kind = "MissingDigests" /\ missing_digests = log.classified.digests)
  /\ pc = "execute_again" => C1_Uploaded
  /\ (log.executes >= 2 /\ log.polls_since_execute = 0 /\ pc = "extract_execute_response") =>
       (C1_Uploaded /\ iter_num = 0)
  /\ (log.executes >= 2 /\ log.polls_since_execute = 0 /\ pc = "delay") =>
       (iter_num = 0 /\ backoff_period = 500)

\* C1 witness: a re-submission issued after earlier polls had raised the
\* counter has returned its operation.
C1_Witness ==
  /\ log.executes = 2
  /\ log.polls >= 2
  /\ log.polls_since_execute = 0
  /\ pc = "extract_execute_response"
  /\ C1_Uploaded

\* C2: when a GetOperation is about to be issued, the Delay before it was
\* requested for min(5000, n * 500) ms, n being the number of NotFinished
\* observations since the most recent Execute (n = 1 + i), and it took at
\* least that long; every delay is between 500 and 5000 ms.
C2_BackoffSchedule ==
  pc = "get_operation" =>
    /\ log.not_finished >= 1
    /\ log.delay = (IF log.not_finished * 500 <= 5000 THEN log.not_finished * 500 ELSE 5000)
    /\ log.slept >= log.delay
    /\ log.delay >= 500
    /\ log.delay <= 5000

\* C2 witness: the eleventh consecutive NotFinished observation, the second
\* wait of 5000 ms.
C2_Witness ==
  /\ pc = "get_operation"
  /\ log.not_finished = 11
  /\ log.delay = 5000

\* C3 as claimed: a run never returns a success result once the time since
\* t_start exceeds the timeout.
C3_NoSuccessAfterDeadline ==
  (pc = "returned" /\ log.observed /\ Elapsed > req.timeout) => result.state # "ok"

\* C3 amended: an operation observed NotFinished when the time since t_start
\* exceeds the timeout ends the run with the timeout failure, whose message
\* contains "Exceeded time out" and the request description.
C3_TimeoutOnNotFinished ==
  [][(pc = "extract_execute_response" /\ ~operation.done /\ Elapsed > req.timeout)
       => (pc' = "returned" /\ IsTimeoutFailure(result'))]_vars

\* C3 witness: a run that has returned the timeout failure after polling.
C3_Witness ==
  /\ pc = "returned"
  /\ IsTimeoutFailure(result)
  /\ log.polls >= 1

\* C4 as claimed: numbering the GetOperation calls of the whole run, the time
\* between call k and call k+1 is at least min(5000, k * 500).
C4_RunWideGaps ==
  log.polls >= 2 =>
    log.gap >= (IF (log.polls - 1) * 500 <= 5000 THEN (log.polls - 1) * 500 ELSE 5000)

\* C4 amended: numbering the GetOperation calls issued since the most recent
\* Execute, the time between call k and call k+1 is at least
\* min(5000, k * 500); across a re-submission the gap is at least 500.
C4_GapsPerSubmission ==
  /\ log.polls_since_execute >= 2 =>
       log.gap >= (IF (log.polls_since_execute - 1) * 500 <= 5000
                     THEN (log.polls_since_execute - 1) * 500 ELSE 5000)
  /\ log.polls >= 2 => log.gap >= 500

\* C4 witness: the third poll of a re-submitted operation.
C4_Witness ==
  /\ log.executes >= 2
  /\ log.polls_since_execute = 3
  /\ log.polls >= 5

\* C5: a failure that is not recovered ends the run at once: the run has
\* returned that failure as its error, and once it has failed no Execute or
\* GetOperation is issued and the result does not change.
C5_FailuresReturned ==
  [][/\ log'.failed => (pc' = "returned" /\ result' = Err(log'.failure))
     /\ log.failed => (/\ log'.executes = log.executes
                       /\ log'.polls = log.polls
                       /\ result' = result
                       /\ pc' = "returned")
     /\ (pc = "extract_execute_response" /\ pc' \notin {"returned", "extract_execute_response"})
          => log'.classified.kind \in {"MissingDigests", "NotFinished"}
     /\ (pc' = "returned" /\ result'.state = "ok")
          => (~log'.failed /\ log'.classified.kind = "Ok")]_vars

\* C5 witness: the upload of missing digests failed and the run returned it.
C5_Witness ==
  /\ pc = "returned"
  /\ log.failed
  /\ log.ensure_called /\ ~log.ensure_ok
  /\ result = Err(log.failure)

\* C6: the digests a MissingDigests named are in the remote CAS before the
\* request is submitted again, and a run that has returned success leaves the
\* remote CAS holding every digest the server reported missing.
C6_RemoteHoldsReported ==
  /\ pc = "execute_again" => SeqToSet(missing_digests) \subseteq store.remote
  /\ (pc = "returned" /\ result.state = "ok") => log.reported \subseteq store.remote

\* C6 witness: the server reported digests that the local store held and the
\* remote CAS did not; the run uploaded them, re-submitted and returned success.
C6_Witness ==
  /\ pc = "returned"
  /\ result.state = "ok"
  /\ log.executes >= 2
  /\ log.reported # {}
  /\ log.reported \cap log.remote0 = {}
  /\ log.reported \subseteq store.remote

\* The digests of the MissingDigests being handled that the local store lacks.
C7_NotHeld == {d \in SeqToSet(missing_digests) : ~HeldLocally(store, d)}

\* C7: when a digest named by MissingDigests is not in the local store, the
\* call of ensure_remote_has_recursive ends the run with an error that names
\* the fingerprint of such a digest, and no Execute or GetOperation follows.
C7_UnknownDigestFails ==
  [][(pc = "ensure_remote_has_recursive" /\ C7_NotHeld # {})
       => /\ pc' = "returned"
          /\ result'.state = "err"
          /\ \E d \in C7_NotHeld : Contains(result'.err, to_hex(d.fp))
          /\ log'.ensure_called /\ ~log'.ensure_ok
          /\ log'.executes = log.executes
          /\ log'.polls = log.polls]_vars

\* C7 witness: the run returned the upload error for the blob no store holds,
\* after one Execute.
C7_Witness ==
  /\ pc = "returned"
  /\ result.state = "err"
  /\ log.ensure_called /\ ~log.ensure_ok
  /\ Contains(result.err, to_hex(Sha256(UnknownBytes)))
  /\ log.executes = 1

\* The operation being classified is done and carries a decodable
\* ExecuteResponse whose status is OK.
C8_StatusOk ==
  /\ pc = "extract_execute_response"
  /\ operation.done
  /\ operation.has_response
  /\ operation.response.value.valid
  /\ operation.response.value.msg.status.code = 0

\* The first part of the Fatal messages of a failed extraction of stdout,
\* stderr or the output files.
C8_ExtractionErrors ==
  {"Error extracting ", "Error fetching ", "Couldn't find ", "Error storing raw ",
   "Error storing raw content for output file ", "Bad fingerprint in Digest ",
   "Error when storing the output file directory info in the remote CAS: "}

\* C8 as claimed: a done operation whose response has status OK makes the run
\* return a success carrying the response's exit code.
C8_StatusOkIsSuccess ==
  [][C8_StatusOk
       => /\ pc' = "returned"
          /\ result'.state = "ok"
          /\ result'.value.exit_code = operation.response.value.msg.result.exit_code]_vars

\* C8 amended: for a done operation without error field whose response has
\* status OK, the run returns at once (no retry); unless the extraction of
\* stdout, stderr or the output files failed, which is then the error, it
\* returns a success whose exit_code is the response's exit code, zero or not.
C8_ExitCodeReturned ==
  [][(C8_StatusOk /\ ~operation.has_error)
       => /\ pc' = "returned"
          /\ log'.executes = log.executes
          /\ \/ /\ result'.state = "ok"
                /\ log'.classified.kind = "Ok"
                /\ result'.value.exit_code = operation.response.value.msg.result.exit_code
             \/ /\ result'.state = "err"
                /\ log'.classified.kind = "Fatal"
                /\ Head(result'.err) \in C8_ExtractionErrors
          /\ LET execute_response == operation.response.value.msg
             IN \A order \in CompletionOrders(execute_response.result.output_files),
                   fault \in StoreFaults :
                  LET out == extract_stdout(store, execute_response, fault)
                      err == extract_stderr(out.store, execute_response, fault)
                      dir == extract_output_files(err.store, execute_response, order, fault)
                  IN (out.ok /\ err.ok /\ dir.ok)
                       => \A o \in joined(store, execute_response, order, fault) :
                            /\ o.kind = "Ok"
                            /\ o.result.exit_code = execute_response.result.exit_code]_vars

\* C8 witness: the run returned success with the least int32 as exit code.
C8_Witness ==
  /\ pc = "returned"
  /\ result.state = "ok"
  /\ result.value.exit_code = Int32Min
  /\ log.classified.kind = "Ok"

\* C9: an operation that is not done is classified NotFinished with the
\* operation's name, whatever its error and response fields hold, and the
\* store is neither called nor changed.
C9_NotDoneIsNotFinished ==
  [][(pc = "extract_execute_response" /\ ~operation.done)
       => /\ log'.classified.kind = "NotFinished"
          /\ log'.classified.name = operation.name
          /\ ~log'.classified.accessed
          /\ store' = store
          /\ operation_name' = operation.name]_vars

\* C9 witness: an operation that is not done but has its error and response
\* fields set was classified NotFinished.
C9_Witness ==
  /\ log.observed
  /\ log.classified.kind = "NotFinished"
  /\ ~operation.done
  /\ operation.has_error
  /\ operation.has_response
  /\ log.classified.name = operation.name
  /\ pc = "delay"

\* The text of the error codes the server uses: the name of a code of the
\* Code enum, the decimal number of any other.
C10_CodeText ==
  [c \in ErrorCodes |->
     CASE c = 1 -> "CANCELLED"
       [] c = 13 -> "INTERNAL"
       [] c = 555 -> "555"
       [] c = -1 -> "-1"]

\* C10: a done operation whose error field is set is classified Fatal and the
\* run returns exactly "<code text>: <message>", with or without a response,
\* for the operation of an Execute and for that of a GetOperation.
C10_ErrorIsFatal ==
  [][(pc = "extract_execute_response" /\ operation.done /\ operation.has_error)
       => /\ log'.classified.kind = "Fatal"
          /\ pc' = "returned"
          /\ result' = Err(<<C10_CodeText[operation.error.code], ": ",
                             operation.error.message>>)
          /\ store' = store]_vars

\* C10 witness: a GetOperation returned a done operation with an error of
\* unknown code and a response, and the run returned "555: <message>".
C10_Witness ==
  /\ pc = "returned"
  /\ log.polls >= 1
  /\ log.polls_since_execute >= 1
  /\ operation.done /\ operation.has_error /\ operation.has_response
  /\ operation.error.code = 555
  /\ result = Err(<<"555", ": ", "Something went wrong">>)

\* C11: a done operation with neither error nor response is classified Fatal
\* and the run returns "Operation finished but no response supplied" without
\* another call, for the operation of an Execute and for that of a GetOperation.
C11_NoResponseIsFatal ==
  [][(pc = "extract_execute_response" /\ operation.done /\ ~operation.has_error
        /\ ~operation.has_response)
       => /\ log'.classified.kind = "Fatal"
          /\ pc' = "returned"
          /\ result' = Err(<<"Operation finished but no response supplied">>)
          /\ log'.polls = log.polls
          /\ log'.executes = log.executes
          /\ store' = store]_vars

\* C11 witness: a GetOperation returned a done operation without error and
\* response, and the run returned the message.
C11_Witness ==
  /\ pc = "returned"
  /\ log.polls >= 1
  /\ log.polls_since_execute >= 1
  /\ operation.done /\ ~operation.has_error /\ ~operation.has_response
  /\ result = Err(<<"Operation finished but no response supplied">>)

\* The operation being classified is done, without error, and its response
\* decodes to the status FAILED_PRECONDITION with exactly one
\* PreconditionFailure detail.
C12_PreconditionFailure ==
  /\ operation.done /\ ~operation.has_error /\ operation.has_response
  /\ operation.response.value.valid
  /\ operation.response.value.msg.status.code = 9
  /\ Len(operation.response.value.msg.status.details) = 1
  /\ operation.response.value.msg.status.details[1].type_url = PreconditionFailureTypeUrl
  /\ operation.response.value.msg.status.details[1].value.valid

C12_Violations == operation.response.value.msg.status.details[1].value.violations

\* The digests blobs can have in the runs checked.
C12_Digests == {DigestOf(b) : b \in Contents \cup {UnknownBytes}}

\* ... and every violation is MISSING with subject blobs/<fingerprint>/<size>,
\* at least one being listed.
C12_AllMissing ==
  /\ C12_PreconditionFailure
  /\ Len(C12_Violations) >= 1
  /\ \A i \in 1..Len(C12_Violations) :
       \E d \in C12_Digests : C12_Violations[i] = missing_preconditionfailure_violation(d)

\* The digests the violations name, in the order listed.
C12_Listed ==
  [i \in 1..Len(C12_Violations) |->
     CHOOSE d \in C12_Digests : C12_Violations[i] = missing_preconditionfailure_violation(d)]

\* C12 as claimed: such an operation is classified MissingDigests with the
\* digests the violations name, in the order listed.
C12_AlwaysMissingDigests ==
  [][(pc = "extract_execute_response" /\ C12_AllMissing)
       => /\ log'.classified.kind = "MissingDigests"
          /\ log'.classified.digests = C12_Listed]_vars

\* C12 amended: such an operation is classified MissingDigests with the
\* digests the violations name, in the order listed, when the stdout, stderr
\* and output files of its result are extracted without error; when that
\* extraction fails the classification is the Fatal error of the extraction.
C12_MissingDigestsInOrder ==
  [][(pc = "extract_execute_response" /\ C12_AllMissing)
       => /\ \/ /\ log'.classified.kind = "MissingDigests"
                /\ log'.classified.digests = C12_Listed
                /\ pc' = "ensure_remote_has_recursive"
                /\ missing_digests' = C12_Listed
             \/ /\ log'.classified.kind = "Fatal"
                /\ pc' = "returned"
                /\ Head(result'.err) \in C8_ExtractionErrors
          /\ LET execute_response == operation.response.value.msg
             IN \A order \in CompletionOrders(execute_response.result.output_files),
                   fault \in StoreFaults :
                  LET out == extract_stdout(store, execute_response, fault)
                      err == extract_stderr(out.store, execute_response, fault)
                      dir == extract_output_files(err.store, execute_response, order, fault)
                  IN (out.ok /\ err.ok /\ dir.ok)
                       => \A o \in joined(store, execute_response, order, fault) :
                            o.kind = "MissingDigests" /\ o.digests = C12_Listed]_vars

\* C12 witness: two violations, listed in an order that is not the order of
\* their fingerprints, were classified MissingDigests in the order listed.
C12_Witness ==
  /\ pc = "ensure_remote_has_recursive"
  /\ log.classified.kind = "MissingDigests"
  /\ missing_digests = <<DigestOf(UnknownBytes), DigestOf(RolandBytes)>>
  /\ C12_AllMissing

\* The Fatal messages of the FailedPrecondition arm for a violation list that
\* is empty or holds a violation that is not a MISSING blob reference.
C13_ViolationErrors ==
  {"Error from remote execution: FailedPrecondition, but no details",
   "Didn't know how to process PreconditionFailure violation: ",
   "Received FailedPrecondition MISSING but didn't recognize subject ",
   "Bad digest in missing blob: ", "Missing blob had bad size: "}

\* C13: MissingDigests is yielded only for a FAILED_PRECONDITION response whose
\* violations, at least one, are all MISSING blob references; when the list is
\* empty or one violation is of another type or has another subject, the
\* response is Fatal, the run returns, and no digest is returned or uploaded.
C13_AllOrNothing ==
  [][/\ (pc = "extract_execute_response" /\ log'.classified.kind = "MissingDigests")
          => (C12_AllMissing /\ operation.response.value.msg.status.code = 9)
     /\ (pc = "extract_execute_response" /\ C12_PreconditionFailure /\ ~C12_AllMissing)
          => /\ log'.classified.kind = "Fatal"
             /\ log'.classified.digests = <<>>
             /\ pc' = "returned"
             /\ result'.state = "err"
             /\ Head(result'.err) \in C13_ViolationErrors \cup C8_ExtractionErrors
             /\ missing_digests' = missing_digests
             /\ log'.reported = log.reported
             /\ store'.remote = store.remote]_vars

\* C13 witness: a list whose first violation is a valid MISSING blob and whose
\* second has a subject outside blobs/ was classified Fatal; the blob of the
\* valid one, though held locally, was not uploaded.
C13_Witness ==
  /\ pc = "returned"
  /\ C12_PreconditionFailure
  /\ Len(C12_Violations) = 2
  /\ C12_Violations[1] = missing_preconditionfailure_violation(DigestOf(RolandBytes))
  /\ C12_Violations[2].type = "MISSING"
  /\ result.state = "err"
  /\ Head(result.err) = "Received FailedPrecondition MISSING but didn't recognize subject "
  /\ RolandBytes \in store.local
  /\ DigestOf(RolandBytes) \notin store.remote

\* The operation being classified is done, without error, and its response
\* decodes to a status that is neither OK nor FAILED_PRECONDITION.
C14_OtherStatus ==
  /\ operation.done /\ ~operation.has_error /\ operation.has_response
  /\ operation.response.value.valid
  /\ operation.response.value.msg.status.code \notin {0, 9}

\* The text of the status codes the server uses.
C14_CodeText ==
  [c \in {3, 14, 99} |->
     CASE c = 3 -> "InvalidArgument"
       [] c = 14 -> "Unavailable"
       [] c = 99 -> "Unknown"]

C14_Message ==
  <<"Error from remote execution: ",
    C14_CodeText[operation.response.value.msg.status.code], ": ",
    "\"" \o operation.response.value.msg.status.message \o "\"">>

\* C14 as claimed: such an operation is classified Fatal with the message
\* naming the code and the status message, and the run returns it without
\* another call.
C14_OtherStatusNamesCode ==
  [][(pc = "extract_execute_response" /\ C14_OtherStatus)
       => /\ log'.classified.kind = "Fatal"
          /\ pc' = "returned"
          /\ result' = Err(C14_Message)]_vars

\* C14 as the code has it: such an operation is classified Fatal and the run
\* returns without another call; the message names the code and the status
\* message unless the extraction of stdout, stderr or the output files, which
\* comes first, failed, and is then the error of that extraction.
C14_OtherStatusIsFatal ==
  [][(pc = "extract_execute_response" /\ C14_OtherStatus)
       => /\ log'.classified.kind = "Fatal"
          /\ pc' = "returned"
          /\ log'.polls = log.polls /\ log'.executes = log.executes
          /\ \/ result' = Err(C14_Message)
             \/ result'.state = "err" /\ Head(result'.err) \in C8_ExtractionErrors]_vars

\* C14 witness: a poll returned a response of unknown status code 99 and the
\* run returned the message naming it Unknown.
C14_Witness ==
  /\ pc = "returned"
  /\ C14_OtherStatus
  /\ operation.response.value.msg.status.code = 99
  /\ result = Err(<<"Error from remote execution: ", "Unknown", ": ", "\"Did not work\"">>)
  /\ log.polls >= 1

\* The result of the response that the run returned as its success.
C15_Result == operation.response.value.msg.result

\* Loading the digest of the bytes from the local store yields the bytes.
C15_Stored(bytes) ==
  load_file_bytes_with(store, DigestOf(bytes)) = [found |-> TRUE, value |-> bytes]

\* C15: when a run has returned success and the result carried stdout
\* (stderr) inline, the stdout (stderr) returned is the inline bytes, and the
\* local store yields those bytes for their digest.
C15_InlineStdioStored ==
  (pc = "returned" /\ result.state = "ok")
    => /\ ~C15_Result.has_stdout_digest
            => (result.value.stdout = C15_Result.stdout_raw /\ C15_Stored(result.value.stdout))
       /\ ~C15_Result.has_stderr_digest
            => (result.value.stderr = C15_Result.stderr_raw /\ C15_Stored(result.value.stderr))

\* C15 witness: a success with inline stdout "foo", which the local store did
\* not hold before the run.
C15_Witness ==
  /\ pc = "returned"
  /\ result.state = "ok"
  /\ ~C15_Result.has_stdout_digest /\ ~C15_Result.has_stderr_digest
  /\ result.value.stdout = FooBytes
  /\ C15_Stored(FooBytes)

\* The operation being classified is done, without error, and carries a
\* response that decodes.
C16_Decoded ==
  /\ operation.done /\ ~operation.has_error /\ operation.has_response
  /\ operation.response.value.valid

\* What the claim says of one stream: digest is the digest the result carries
\* for it, and returned the bytes the run would return for it.
C16_Stream(has_digest, proto_digest, returned) ==
  has_digest
    => LET d == FromProtoDigest(proto_digest)
       IN /\ (~d.ok \/ ~HeldLocally(store, d.value))
               => (log'.classified.kind = "Fatal" /\ pc' = "returned" /\ result'.state = "err")
          /\ result'.state = "ok"
               => (returned \in store.local /\ DigestOf(returned) = d.value)

C17_OutputFiles == operation.response.value.msg.result.output_files

\* C17: when extract_output_files hands the path map to the snapshot builder
\* (every digest of the list converted), the map has an entry for the path of
\* every path stat, whatever the order in which the upload tasks completed; no
\* classification fails with "Didn't know digest for path".
C17_EveryPathKnown ==
  [][(pc = "extract_execute_response" /\ C16_Decoded)
       => /\ FirstBadDigest(C17_OutputFiles, 1) = 0
               => \A order \in CompletionOrders(C17_OutputFiles) :
                    LET path_map == TaskInserts(C17_OutputFiles, order, 1,
                                                DirectInserts(C17_OutputFiles, 1, EmptyMap))
                    IN \A i \in 1..Len(C17_OutputFiles) :
                         /\ PathStats(C17_OutputFiles)[i].path = C17_OutputFiles[i].path
                         /\ store_by_digest(path_map, PathStats(C17_OutputFiles)[i].path).ok
          /\ ~Contains(result'.err,
                       "Didn't know digest for path in remote execution response: ")]_vars

\* C17 witness: a result listing an inline file and a file by digest was
\* returned with a directory naming both.
C17_Witness ==
  /\ pc = "returned"
  /\ result.state = "ok"
  /\ Len(C17_OutputFiles) = 2
  /\ ~C17_OutputFiles[1].has_digest /\ C17_OutputFiles[2].has_digest
  /\ result.value.output_directory =
       DirectoryDigest({<<"foo", DigestOf(FooBytes), TRUE>>,
                        <<"cats/simba", DigestOf(SimbaBytes), FALSE>>})

\* ------------------------------------------------------------------- C18
\* The Action's output files of an accepted request.
C18_OutputFiles == execute_request.action.output_files

\* C18: for every request make_execute_request accepts, Action.output_files
\* holds exactly the request's output paths as strings, each once, in strictly
\* ascending string order.
C18_OutputFilesAscending ==
  pc = "upload_command" =>
    /\ Len(C18_OutputFiles) = Cardinality(req.output_files)
    /\ {C18_OutputFiles[i] : i \in 1..Len(C18_OutputFiles)} =
         {to_str(path).value : path \in req.output_files}
    /\ \A i, j \in 1..Len(C18_OutputFiles) :
         i < j => StrRank(C18_OutputFiles[i]) < StrRank(C18_OutputFiles[j])

\* A request whose paths the BTreeSet yields as a/b, a-b has been accepted and
\* its Action lists them as a-b, a/b.
C18_Witness ==
  /\ pc = "upload_command"
  /\ req.output_files = {"a/b", "a-b"}
  /\ Ascending(req.output_files, [p \in req.output_files |-> PathRank(p)]) = <<"a/b", "a-b">>
  /\ C18_OutputFiles = <<"a-b", "a/b">>

\* ------------------------------------------------------------------- C19
\* The requests that agree with the one of this run on argv, the env map, the
\* input_files digest and the set of output paths.
C19_SameInputs ==
  {other \in CanonRequests :
     /\ other.argv = req.argv
     /\ other.env = req.env
     /\ other.input_files = req.input_files
     /\ other.output_files = req.output_files}

\* C19: requests with the same argv, env map, input_files digest and set of
\* output paths yield equal Commands, command digests and ExecuteRequests,
\* whatever the order in which the env pairs and paths were inserted.
C19_Deterministic ==
  pc = "upload_command" =>
    /\ \A other \in C19_SameInputs :
         /\ make_execute_request(other).ok
         /\ make_execute_request(other).command = command
         /\ make_execute_request(other).execute_request.action.command_digest =
              execute_request.action.command_digest
         /\ make_execute_request(other).execute_request = execute_request
    /\ \A env \in EnvInsertions, paths \in PathInsertions :
         (BTreeMapOf(env) = req.env /\ BTreeSetOf(paths) = req.output_files) =>
           \E other \in C19_SameInputs :
             other = ExecuteProcessRequest(req.argv, BTreeMapOf(env), req.input_files,
                                           BTreeSetOf(paths), other.output_directories,
                                           other.timeout, other.description)

\* A request with two env pairs and two paths has been accepted; inserting them
\* in either order gives a request with the same inputs, and a request with
\* another description and timeout has them too.
C19_Witness ==
  /\ pc = "upload_command"
  /\ req.env = BTreeMapOf(<<<<"B", "2">>, <<"A", "1">>>>)
  /\ req.env = BTreeMapOf(<<<<"A", "1">>, <<"B", "2">>>>)
  /\ req.output_files = BTreeSetOf(<<"a-b", "a/b">>)
  /\ req.output_files = BTreeSetOf(<<"a/b", "a-b">>)
  /\ \E other \in C19_SameInputs :
       other.description # req.description /\ other.timeout # req.timeout
  /\ Len(command.environment_variables) = 2

\* ------------------------------------------------------------------- C20
\* C20: Command.arguments is argv element for element; environment_variables
\* has one entry per env pair, in ascending order of name, name and value
\* unchanged; command_digest is the digest of that complete Command.
C20_CommandOfRequest ==
  pc = "upload_command" =>
    /\ command.arguments = req.argv
    /\ Len(command.environment_variables) = Cardinality(req.env)
    /\ {<<var.name, var.value>> :
          var \in {command.environment_variables[i] :
                     i \in 1..Len(command.environment_variables)}} = req.env
    /\ \A i, j \in 1..Len(command.environment_variables) :
         i < j => StrRank(command.environment_variables[i].name)
                    < StrRank(command.environment_variables[j].name)
    /\ execute_request.action.command_digest =
         ProtoDigest(to_hex(Sha256(write_to_bytes(command))), Len(write_to_bytes(command)))

\* A request with argv foo -n /bin/echo and the pairs B = 2, A = 2 has been
\* accepted: its Command lists A before B and its digest covers both.
C20_Witness ==
  /\ pc = "upload_command"
  /\ req.argv = <<"foo", "-n", "/bin/echo">>
  /\ req.env = BTreeMapOf(<<<<"B", "2">>, <<"A", "1">>, <<"A", "2">>>>)
  /\ command.environment_variables =
       <<[name |-> "A", value |-> "2"], [name |-> "B", value |-> "2"]>>
  /\ execute_request.action.command_digest.size_bytes = 12

\* ------------------------------------------------------------------- C21
\* The places of run where an Execute or GetOperation call is made.
C21_RpcPlaces == {"execute", "execute_again", "get_operation"}

\* The text of the gRPC status codes the servers fail with.
C21_StatusText(code) ==
  CASE code = 3 -> "InvalidArgument"
    [] code = 14 -> "Unavailable"

\* The error run returns for a failed RPC: status and message of an
\* RpcFailure, the description of any other grpcio error.
C21_Message(error) ==
  IF error.rpc_failure
    THEN <<C21_StatusText(error.status), ": ",
           "\"" \o (IF error.details = "" THEN "[no message]" ELSE error.details) \o "\"">>
    ELSE <<error.details>>

\* C21: when an Execute call (first or re-submission) or a GetOperation call
\* fails, run returns at once with an error carrying the RPC status and
\* message; once run has returned nothing more is called.
C21_RpcFailureReturned ==
  [][/\ pc # "returned"
     /\ (pc \in C21_RpcPlaces /\ pc' = "returned") =>
          /\ \E error \in RpcErrors(server) : result' = Err(C21_Message(error))
          /\ log'.failed /\ log'.failure = result'.err
          /\ log'.executes + log'.polls = log.executes + log.polls + 1
          /\ log'.slept = log.slept
     /\ (pc \in C21_RpcPlaces /\ pc' # "returned") =>
          pc' = "extract_execute_response" /\ result' = Pending]_vars

\* A re-submission after MissingDigests was rejected by the server and run
\* returned the status and message.
C21_Witness ==
  /\ pc = "returned"
  /\ log.executes = 2 /\ log.polls_since_execute = 0
  /\ log.classified.kind = "MissingDigests"
  /\ result = Err(<<"InvalidArgument", ": ", "\"Did not expect this request\"">>)

\* ------------------------------------------------------------------- C22
\* The phases of run, in order, and the phase each place belongs to.
C22_Phase ==
  CASE pc = "make_execute_request" -> 1
    [] pc = "upload_command" -> 2
    [] pc = "execute" -> 3
    [] pc \in {"extract_execute_response", "ensure_remote_has_recursive", "execute_again",
               "delay", "get_operation"} -> 4
    [] pc = "returned" -> 5

\* The request has been canonicalized: Command and ExecuteRequest are built.
C22_Canonicalized ==
  /\ command.arguments = req.argv
  /\ execute_request.action.command_digest =
       [hash |-> to_hex(Sha256(write_to_bytes(command))),
        size_bytes |-> Len(write_to_bytes(command))]

\* The Command is stored locally and the remote CAS holds its digest.
C22_CommandUploaded ==
  /\ write_to_bytes(command) \in store.local
  /\ DigestOf(write_to_bytes(command)) \in store.remote

\* C22: the phases come in the order canonicalize, upload command, Execute,
\* classify/poll loop, each starting only when the one before has succeeded:
\* no Execute before the Command is stored and ensured remotely, and no
\* GetOperation before an Execute has returned an operation.
C22_PhasesInOrder ==
  /\ C22_Phase >= 2 /\ C22_Phase <= 4 => C22_Canonicalized
  /\ C22_Phase \in {3, 4} => C22_CommandUploaded
  /\ C22_Phase <= 2 => log.executes = 0 /\ log.polls = 0 /\ ~log.observed
  /\ C22_Phase = 3 => log.executes = 0 /\ log.polls = 0 /\ ~log.observed
  /\ C22_Phase = 4 => log.executes >= 1
  /\ log.executes >= 1 => C22_Canonicalized /\ C22_CommandUploaded
  /\ log.polls >= 1 => log.executes >= 1 /\ log.observed
  /\ pc \in {"delay", "get_operation"} => log.classified.kind = "NotFinished"
  /\ (pc = "returned" /\ ~log.failed) => result.state = "ok" /\ log.executes >= 1
  /\ (pc = "returned" /\ log.executes = 0) => result.state = "err"

\* The phases never go backwards and none is skipped.
C22_PhaseSteps ==
  [][\/ C22_Phase' = C22_Phase
     \/ C22_Phase' = C22_Phase + 1
     \/ pc' = "returned"]_vars

\* A run has gone through every phase: it polled an operation that an Execute
\* returned, for a Command that was uploaded first.
C22_Witness ==
  /\ pc = "get_operation"
  /\ log.executes = 1 /\ log.polls = 1
  /\ C22_CommandUploaded
  /\ DigestOf(write_to_bytes(command)) \notin log.remote0

\* ------------------------------------------------------------------- C23
\* The four cells of a handle.
C23_Cells(h) == <<h.channel, h.env, h.execution_client, h.operations_client>>
C23_Empty == [id |-> 0, from |-> 0]
C23_AllEmpty(h) == \A i \in 1..4 : C23_Cells(h)[i] = C23_Empty

\* A step of reset_prefork: no step of the run (each of those moves pc or
\* writes the log).
C23_IsReset == pc' = pc /\ log' = log

\* C23: reset_prefork empties all four cells, so that the next access to a
\* cell makes a value the handle never held before; resetting a handle whose
\* cells are empty (after a reset, or before any access) changes nothing.
C23_ResetPrefork ==
  [][/\ C23_IsReset =>
          /\ C23_AllEmpty(handle')
          /\ handle'.made = handle.made
          /\ C23_AllEmpty(handle) => handle' = handle
     /\ log'.executes > log.executes =>
          IF handle.execution_client = C23_Empty
            THEN /\ handle'.execution_client.id > handle.made
                 /\ handle'.execution_client.from = handle'.channel.id
            ELSE handle'.execution_client = handle.execution_client
     /\ log'.polls > log.polls =>
          IF handle.operations_client = C23_Empty
            THEN /\ handle'.operations_client.id > handle.made
                 /\ handle'.operations_client.from = handle'.channel.id
            ELSE handle'.operations_client = handle.operations_client
     /\ ~C23_IsReset =>
          /\ IF handle.channel = C23_Empty
               THEN handle'.channel = C23_Empty
                      \/ (handle'.channel.id > handle.made
                            /\ handle'.channel.from = handle'.env.id)
               ELSE handle'.channel = handle.channel
          /\ IF handle.env = C23_Empty
               THEN handle'.env = C23_Empty \/ handle'.env.id > handle.made
               ELSE handle'.env = handle.env]_vars

\* The handle was used for an Execute and a GetOperation, reset, and used for
\* both again: all four values are ones made after the first four.
C23_Witness ==
  /\ handle.made = 8
  /\ \A i \in 1..4 : C23_Cells(handle)[i].id > 4
  /\ log.executes = 2 /\ log.polls >= 2

\* ------------------------------------------------------------------- C24
\* C24 as stated: whatever the interleaving, everything each of the two runs
\* has seen and done, and so its RPCs, its waits and its result, is what it
\* could have seen and done running alone against the same replies.
C24_SameAsAlone == alone # {} /\ peer.alone # {}

\* The state a run's future owns, as the run in progress has it.
C24_Own ==
  [req |-> req, pc |-> pc, command |-> command, execute_request |-> execute_request,
   operation |-> operation, iter_num |-> iter_num, start_time |-> start_time,
   missing_digests |-> missing_digests, operation_name |-> operation_name,
   backoff_period |-> backoff_period, result |-> result, alone |-> alone, log |-> log]

\* Store a holds no more than store b.
C24_Within(a, b) == a.local \subseteq b.local /\ a.remote \subseteq b.remote

\* Alone, the call on the store the run is about to make could only fail.
C24_AloneFails ==
  CASE pc = "extract_execute_response" ->
         \A a \in alone : \A o \in extract_execute_response(a, operation) : o.kind = "Fatal"
    [] pc = "ensure_remote_has_recursive" ->
         \A a \in alone : \A o \in ensure_remote_has_recursive(a, missing_digests) : ~o.ok
    [] OTHER -> FALSE

\* C24, amended: of two concurrent runs each keeps its own operation,
\* iteration counter and start time (the suspended run's state changes only by
\* being resumed, and then the other's is kept as it was); the store is common
\* and holds at least what the run alone could have left; and when a run sees
\* what it could not have seen alone, the store held a blob of the other run
\* and, if the run fails there, alone it could only have failed there too.
C24_RunsShareOnlyTheStore ==
  [][/\ peer' # peer =>
          /\ peer' = C24_Own
          /\ C24_Own' = peer
          /\ store' = store /\ now' = now /\ handle' = handle
     /\ alone' # {} => \E a \in alone' : C24_Within(a, store')
     /\ (peer' = peer /\ alone # {} /\ alone' = {}) =>
          /\ store \notin alone
          /\ (pc' = "returned" /\ result'.state = "err") => C24_AloneFails]_vars

\* Both runs were under way when one stored roland inline; the other then got
\* a result naming roland by digest and returned it, which alone it could not.
C24_Witness ==
  /\ alone = {}
  /\ pc = "returned" /\ result.state = "ok" /\ result.value.stdout = RolandBytes
  /\ log.executes = 1 /\ log.polls >= 1
  /\ peer.pc = "returned" /\ peer.result.state = "ok" /\ peer.alone # {}
  /\ peer.log.polls >= 1
  /\ iter_num # peer.iter_num

\* ------------------------------------------------------------------- C25
\* C25 as stated: a run fails by the timeout only when the time since the
\* Execute submission whose operation it is polling returned exceeds
\* req.timeout; polling of earlier submissions and uploads do not count.
C25_PerSubmission ==
  IsTimeoutFailure(result) => now - log.executed_at > req.timeout

\* C25, amended: the timeout is measured against the time since the first
\* Execute of the run returned, whatever re-submissions and uploads happened
\* since: a run fails by the timeout only beyond it, and goes on to wait for
\* the next poll only within it.
C25_SinceFirstSubmission ==
  /\ IsTimeoutFailure(result) => now - log.first_executed_at > req.timeout
  /\ pc = "delay" => now - log.first_executed_at <= req.timeout

\* A run timed out on the operation of a re-submission it had polled, within
\* req.timeout of that re-submission.
C25_Witness ==
  /\ IsTimeoutFailure(result)
  /\ log.executes >= 2
  /\ log.polls_since_execute >= 1
  /\ log.executed_at > log.first_executed_at
  /\ now - log.executed_at <= req.timeout

C27_NotOkStatus ==
  /\ operation.done /\ ~operation.has_error /\ operation.has_response
  /\ operation.response.value.valid
  /\ operation.response.value.msg.status.code # 0

\* C27 as claimed: a done operation whose status is not OK is classified
\* MissingDigests or Fatal from its status alone, without any call on the
\* store and without a change of the store.
C27_NoExtractionUnlessDone ==
  [][(pc = "extract_execute_response" /\ C27_NotOkStatus)
       => /\ ~log'.classified.accessed
          /\ store' = store
          /\ log'.classified.kind = "Fatal" => Head(result'.err) \notin C8_ExtractionErrors]_vars

\* ------------------------------------------------------------------- C28
\* The run is handling MissingDigests: the classifier yields it in this step,
\* or the upload or the re-submission is the step.
C28_Handling ==
  \/ pc = "extract_execute_response" /\ log'.classified.kind = "MissingDigests"
  \/ pc = "ensure_remote_has_recursive"
  \/ pc = "execute_again"

\* C28: of the loop's state the handling of MissingDigests changes the
\* operation and the iteration counter only, and these only when the
\* re-submission returns: the start time stays the time the first Execute
\* returned, and the ExecuteRequest, the Command and the request are kept; so
\* an operation found unfinished ends the run by the timeout exactly when the
\* time since the first Execute returned, uploads included, exceeds it.
C28_OnlyOperationAndCounter ==
  [][/\ C28_Handling =>
          /\ start_time' = start_time
          /\ execute_request' = execute_request /\ command' = command /\ req' = req
          /\ pc # "execute_again" => (operation' = operation /\ iter_num' = iter_num)
          /\ (pc = "execute_again" /\ pc' = "extract_execute_response") => iter_num' = 0
     /\ log'.observed => start_time' = log'.first_executed_at
     /\ (pc = "extract_execute_response" /\ ~operation.done /\ log.executes >= 2) =>
          (pc' = "returned" <=> now - log.first_executed_at > req.timeout)]_vars

\* After polls had raised the counter, missing digests were uploaded, which
\* took time, and the request was re-submitted: the run waits for the first
\* poll of the new operation with the counter at 0 and the start time of the
\* first submission.
C28_Witness ==
  /\ pc = "delay"
  /\ log.executes = 2
  /\ log.polls >= 1
  /\ iter_num = 0
  /\ start_time = log.first_executed_at
  /\ log.executed_at >= start_time + 2 * BACKOFF_INCR_WAIT_MILLIS

\* ------------------------------------------------------------------- C29
\* C29: every Execute call of the run, first submission or re-submission,
\* carried the ExecuteRequest make_execute_request built from the request,
\* which the run holds unchanged; upload_command was called once, before the
\* first Execute, and not again.
C29_OneRequestOneUpload ==
  /\ log.requests \subseteq {make_execute_request(req).execute_request}
  /\ log.executes >= 1 => (log.requests = {execute_request} /\ log.uploads = 1)
  /\ log.uploads <= 1
  /\ log.uploads = 0 => pc \in {"make_execute_request", "upload_command", "returned"}

\* The reply to the second re-submission has arrived: three Execute calls, one
\* request, one upload of the Command.
C29_Witness ==
  /\ pc = "extract_execute_response"
  /\ log.executes = 3
  /\ log.polls_since_execute = 0
  /\ log.requests = {execute_request}
  /\ log.uploads = 1
  /\ log.ensure_ok

\* ------------------------------------------------------------------- C30
\* The number of Execute and GetOperation calls of the run so far.
C30_Calls == log.executes + log.polls

\* C30: a step of the run makes at most one Execute or GetOperation call, and
\* the call has returned when the step ends, so that none is outstanding when
\* the next is made; the reply is classified next; a GetOperation call is made
\* only from the end of the backoff sleep, which is started only by the
\* classification of the previous reply as not finished; and the calls are
\* strictly ordered in time: a GetOperation is issued later than the one
\* before it and later than the reply to the last Execute.
C30_OneCallAtATime ==
  [][/\ C30_Calls' \in {C30_Calls, C30_Calls + 1}
     /\ C30_Calls' > C30_Calls =>
          /\ pc \in {"execute", "execute_again", "get_operation"}
          /\ pc' \in {"extract_execute_response", "returned"}
     /\ (pc = "extract_execute_response" /\ pc' # pc) => (log'.observed /\ C30_Calls' = C30_Calls)
     /\ log'.polls > log.polls =>
          /\ pc = "get_operation"
          /\ log.observed /\ log.classified.kind = "NotFinished"
          /\ log.slept >= backoff_period
          /\ log'.last_poll_at = now
          /\ log'.last_poll_at > log.last_poll_at
          /\ log'.last_poll_at > log.executed_at
          /\ now' >= now
     /\ pc' = "get_operation" => (pc = "delay" /\ now' >= now + backoff_period)
     /\ pc' = "delay" => (pc = "extract_execute_response" /\ ~operation.done)]_vars

\* The third GetOperation call of a run is about to be made, a second and
\* longer sleep after the second.
C30_Witness ==
  /\ pc = "get_operation"
  /\ log.polls = 2
  /\ log.polls_since_execute = 2
  /\ now >= log.last_poll_at + 3 * BACKOFF_INCR_WAIT_MILLIS
  /\ log.last_poll_at > log.executed_at

\* ------------------------------------------------------------------- C31
\* C31: an operation observed not finished with elapsed > req.timeout ends
\* the run in that step with the timeout failure: no time passes, no sleep is
\* started, no Execute or GetOperation is made and no client is touched; with
\* elapsed <= req.timeout, the deadline itself included, the run goes on to
\* the backoff sleep.  Once returned, the run makes no call at all.
C31_DeadlineBeforeSleep ==
  [][/\ (pc = "extract_execute_response" /\ ~operation.done) =>
          IF Elapsed > req.timeout
            THEN /\ pc' = "returned"
                 /\ IsTimeoutFailure(result')
                 /\ now' = now
                 /\ log'.polls = log.polls /\ log'.executes = log.executes
                 /\ log'.slept = log.slept /\ log'.delay = log.delay
                 /\ handle' = handle
            ELSE /\ pc' = "delay"
                 /\ result' = result
     /\ pc = "returned" => (log'.polls = log.polls /\ log'.executes = log.executes
                             /\ handle' = handle /\ pc' = "returned")]_vars

\* An operation was found not finished exactly req.timeout after t_start, and
\* the run went on to sleep before its next poll.
C31_Witness ==
  /\ pc = "delay"
  /\ Elapsed = req.timeout
  /\ log.polls >= 1
  /\ log.classified.kind = "NotFinished"

\* ------------------------------------------------------------------- C32
\* The error upload_command gives when the serialization or the local store
\* call fails.
C32_LocalFailure(err) == Head(err) = "Error saving digest to local store: "

\* C32: when upload_command calls ensure_remote_has_recursive the serialized
\* Command is already held by the local store; when the serialization or the
\* local store call fails, ensure_remote_has_recursive is not called and the
\* store is left as it was; when any of the three steps fails the run returns
\* the error, and it has made no Execute call then or later; an Execute call
\* is made only after all three succeeded.
C32_UploadBeforeExecute ==
  [][/\ pc = "upload_command" =>
          /\ log'.command_ensured =>
               (log'.command_saved /\ write_to_bytes(command) \in store'.local)
          /\ (result'.state = "err" /\ C32_LocalFailure(result'.err)) =>
               (~log'.command_saved /\ ~log'.command_ensured /\ store' = store)
          /\ ~log'.command_saved => result'.state = "err"
          /\ result'.state = "err" => (pc' = "returned" /\ log'.executes = 0)
          /\ pc' = "execute" =>
               /\ log'.command_saved /\ log'.command_ensured
               /\ FromProtoDigest(execute_request.action.command_digest).value
                    \in store'.remote
     /\ log'.executes >= 1 => (log'.command_saved /\ log'.command_ensured)
     /\ (pc = "returned" /\ log.executes = 0) => log'.executes = 0]_vars

\* The serialization failed: the run returned its error, the store is as it
\* was at the start, and no call was made.
C32_Witness ==
  /\ pc = "returned"
  /\ result = Err(<<"Error saving digest to local store: ",
                     Quoted("Error serializing command")>>)
  /\ log.uploads = 1 /\ ~log.command_saved /\ ~log.command_ensured
  /\ log.executes = 0
  /\ write_to_bytes(command) \notin store.local
  /\ store.remote = log.remote0

\* ------------------------------------------------------------------- C33
\* The message of the panic of an unwrap that fails.
C33_Panic == <<"called Result::unwrap() on an Err value">>

\* C33: for the output files of every response classified, in every
\* completion order of the inline upload tasks: when join_all resolves well
\* every task has completed and path_map_2 is the only reference left, so that
\* try_unwrap succeeds; when an upload task fails the outcome is the failure
\* of that task and nothing was handed to the snapshot builder; and no run
\* ends by the panic.
C33_ExclusiveOwnership ==
  [][(pc = "extract_execute_response" /\ C16_Decoded /\ FirstBadDigest(C17_OutputFiles, 1) = 0)
       => /\ \A order \in CompletionOrders(C17_OutputFiles), fault \in StoreFaults :
               LET joined_all == join_all(order, fault)
                   dir == extract_output_files(store, operation.response.value.msg, order, fault)
               IN IF joined_all.ok
                    THEN /\ joined_all.completed = Cardinality(InlineIndices(C17_OutputFiles))
                         /\ Holders(order, joined_all.completed) = {<<"path_map_2", 0>>}
                         /\ try_unwrap(Holders(order, joined_all.completed))
                         /\ dir.err # C33_Panic
                    ELSE /\ ~dir.ok
                         /\ Head(dir.err) = "Error storing raw content for output file "
                         /\ dir.value = EMPTY_DIGEST
          /\ result'.err # C33_Panic]_vars

\* A result with two inline output files was returned with its directory.
C33_Witness ==
  /\ pc = "returned"
  /\ result.state = "ok"
  /\ C16_Decoded
  /\ Cardinality(InlineIndices(C17_OutputFiles)) = 2
  /\ result.value.output_directory # EMPTY_DIGEST

\* ------------------------------------------------------------------- C34
\* C34 as claimed: every run, polled as long as it has not resolved, against a
\* server that answers every call while the clock advances, eventually
\* returns a result or an error.
C34_EventuallyReturns == <>(pc = "returned")

\* ------------------------------------------------------------------- C35
\* What the loop does with a classifier outcome of a done operation, elapsed
\* not being looked at.
C35_Handled(outcome) ==
  CASE outcome.kind = "Ok" ->
         pc' = "returned" /\ result' = Ok(outcome.result)
    [] outcome.kind = "Fatal" ->
         pc' = "returned" /\ result'.state = "err" /\ result'.err = outcome.err
    [] outcome.kind = "MissingDigests" ->
         /\ pc' = "ensure_remote_has_recursive"
         /\ missing_digests' = outcome.digests
         /\ result' = result
    [] OTHER -> FALSE

\* C35: the deadline is consulted on a NotFinished outcome only.  Whatever the
\* elapsed time, a done operation is handled as its classification alone
\* says: a success is returned as the result, a Fatal as the error, and
\* MissingDigests goes to the upload that precedes the re-submission; the
\* step never yields the timeout failure and takes no time.  A timeout
\* failure comes only out of an operation that is not done.
C35_DeadlineOnlyOnNotFinished ==
  [][pc = "extract_execute_response" =>
       /\ operation.done =>
            /\ \E outcome \in extract_execute_response(store, operation) :
                 C35_Handled(outcome)
            /\ ~IsTimeoutFailure(result')
            /\ now' = now
       /\ IsTimeoutFailure(result') => (~operation.done /\ Elapsed > req.timeout)]_vars

\* C35 witness: a reply that reports missing digests was polled after the
\* deadline, and the run is about to upload them.
C35_Witness ==
  /\ pc = "ensure_remote_has_recursive"
  /\ Elapsed > req.timeout
  /\ log.polls >= 1
  /\ log.classified.kind = "MissingDigests"

\* A second case of C35: a success polled after the deadline was returned.
C35_LateSuccess ==
  /\ pc = "returned"
  /\ result.state = "ok"
  /\ Elapsed > req.timeout
  /\ log.polls >= 1



\* ------------------------------------------------------------------- C36
\* C36: every GetOperation request carries the name of the operation the run
\* observed last, which is not done; a done operation is never followed by
\* the sleep or a poll; and every poll made since a re-submission carries the
\* name of an operation received since that re-submission.
C36_PollsLastObservedName ==
  [][/\ pc = "get_operation" =>
          /\ ~operation.done
          /\ operation_name = operation.name
          /\ log'.polls = log.polls + 1
          /\ log'.polled_name = operation.name
     /\ log'.polls # log.polls => pc = "get_operation"
     /\ (pc = "extract_execute_response" /\ operation.done) =>
          (pc' \notin {"delay", "get_operation"} /\ log'.polls = log.polls)
     /\ pc \in {"execute", "execute_again"} =>
          (log'.polls = log.polls /\ log'.polls_since_execute = 0)]_vars

\* C36 witness: the polls before the re-submission carried one name, the
\* re-submission returned an operation with another name, and the poll made
\* since carried the new name.
C36_Witness ==
  /\ log.executes = 2
  /\ log.polls_since_execute >= 1
  /\ log.polled_before = "gimme-foo"
  /\ log.polled_name = "cat2"



\* ------------------------------------------------------------------- C37
\* The path map the closure after join_all hands to the snapshot builder when
\* the upload tasks of the response at hand complete in the given order.
C37_PathMap(order) ==
  TaskInserts(C17_OutputFiles, order, 1, DirectInserts(C17_OutputFiles, 1, EmptyMap))

\* C37 as claimed: for the output_files of any response, two entries with the
\* same path included, the path map handed to the snapshot builder is the
\* same for every order in which the inline upload tasks complete.
C37_SameMapForEveryOrder ==
  (pc = "extract_execute_response" /\ C16_Decoded /\ FirstBadDigest(C17_OutputFiles, 1) = 0)
    => \A o1, o2 \in CompletionOrders(C17_OutputFiles) :
         C37_PathMap(o1) = C37_PathMap(o2)



\* ------------------------------------------------------------------- C38
\* C38: whatever the handle holds was made after its last reset, each client
\* on the channel the handle holds and the channel on the environment it
\* holds; so no cell holds a value made from a value a reset discarded, and
\* the first Execute or GetOperation after a reset uses a client made after
\* it, on a channel and an environment made after it.
C38_BuiltAfterReset ==
  /\ \A cell \in {handle.env, handle.channel, handle.execution_client,
                   handle.operations_client} :
       cell # NoValue => cell.id > handle.reset_at
  /\ \A client \in {handle.execution_client, handle.operations_client} :
       client # NoValue =>
         (handle.channel # NoValue /\ client.from = handle.channel.id)
  /\ handle.channel # NoValue =>
       (handle.env # NoValue /\ handle.channel.from = handle.env.id /\ handle.env.from = 0)

\* C38 witness: a handle that had made an environment, a channel and both
\* clients was reset, and both clients were accessed again.
C38_Witness ==
  /\ handle.reset_at >= 4
  /\ handle.execution_client # NoValue
  /\ handle.operations_client # NoValue



\* ------------------------------------------------------------------- C39
\* The request at hand with other output directories, another timeout and
\* another description.
C39_Varied(output_directories, timeout, description) ==
  [req EXCEPT !.output_directories = output_directories, !.timeout = timeout,
              !.description = description]

\* C39: make_execute_request reads argv, env, input_files and output_files
\* only.  Changing the output directories, the timeout or the description of
\* a request, one of them or all, changes nothing of what it returns: the
\* same Command, the same ExecuteRequest with the same Action, or the same
\* error; and what the run keeps is that Command and ExecuteRequest.
C39_OtherFieldsIgnored ==
  [][pc = "make_execute_request" =>
       /\ \A output_directories \in {{}, {"other/file"}, {"a/b", "path/to/file"}},
             timeout \in Timeouts \cup {0},
             description \in {"echo a foo", "other", ""} :
            make_execute_request(C39_Varied(output_directories, timeout, description)) =
              make_execute_request(req)
       /\ pc' = "upload_command" =>
            /\ command' = make_execute_request(C39_Varied({}, 0, "")).command
            /\ execute_request' =
                 make_execute_request(C39_Varied({}, 0, "")).execute_request
       /\ pc' = "returned" =>
            result'.err = make_execute_request(C39_Varied({}, 0, "")).err]_vars

\* C39 witness: a request with an output directory, the long timeout and the
\* description "other" was accepted, with the Command and the ExecuteRequest
\* of the request that has the same argv, env, input_files and output_files
\* but no output directory, the short timeout and another description.
C39_Witness ==
  /\ pc = "upload_command"
  /\ req.output_directories = {"other/file"}
  /\ req.timeout = LongTimeout
  /\ req.description = "other"
  /\ req.env # {} /\ req.output_files # {}
  /\ command = make_execute_request(C39_Varied({}, ShortTimeout, "echo a foo")).command
  /\ execute_request =
       make_execute_request(C39_Varied({}, ShortTimeout, "echo a foo")).execute_request



\* ------------------------------------------------------------------- C40
\* The server has answered the one Execute and every GetOperation of the run
\* with an operation that is not done, the one at hand included.
C40_NeverDone ==
  /\ pc = "extract_execute_response"
  /\ ~operation.done
  /\ log.executes = 1
  /\ log.not_finished = log.polls

\* C40: against a server that answers with operations that are not done, the
\* run is over, by the timeout failure, at the first reply that arrives after
\* the deadline, and that reply arrives no later than req.timeout, plus the
\* one wait before the poll, plus the time the poll took, after t_start.  The
\* wait was asked for the whole backoff period, at most 5000 ms, and took no
\* less, however little time was left before the deadline.
C40_BoundedOvershoot ==
  [][C40_NeverDone =>
       /\ log.polls >= 1 =>
            /\ Elapsed <= req.timeout + log.slept + (now - log.last_poll_at)
            /\ log.delay = min(BACKOFF_MAX_WAIT_MILLIS, log.polls * BACKOFF_INCR_WAIT_MILLIS)
            /\ log.slept >= log.delay
            /\ log.slept - log.delay \in Latencies(server)
       /\ IF Elapsed > req.timeout
            THEN pc' = "returned" /\ IsTimeoutFailure(result') /\ now' = now
            ELSE pc' = "delay" /\ backoff_period' = backoff(log.polls)]_vars

\* C40 witness: a run whose every reply was an operation not done waited the
\* whole backoff period with less than that left before the deadline, and
\* returned the timeout failure a full backoff period after the deadline.
C40_Witness ==
  /\ pc = "returned"
  /\ IsTimeoutFailure(result)
  /\ log.executes = 1
  /\ log.polls >= 2
  /\ log.not_finished = log.polls + 1
  /\ log.slept = log.delay
  /\ Elapsed >= req.timeout + log.delay


====
